---- MODULE Spec2Model ----
(***************************************************************************)
(* Model of the ClickHouse database plugin for Vault                       *)
(* (package clickhouse: New, Initialize, NewUser, UpdateUser, DeleteUser). *)
(*                                                                         *)
(* One plugin instance (a Clickhouse value embedding SQLConnectionProducer  *)
(* with its mutex, Initialized flag and *sql.DB handle) is called by       *)
(* NumProcs concurrent callers.  The target database is a table of         *)
(* accounts plus the 'cluster' macro.  SQL text is modelled as a sequence  *)
(* of tokens: one token per SQL command, ";" for the statement delimiter,  *)
(* " " for whitespace and "ONCLUSTER" for the clause ON CLUSTER            *)
(* '{cluster}'.  A transaction follows the database/sql contract: the      *)
(* statements executed through a Tx take effect at Commit and are          *)
(* discarded by Rollback.                                                  *)
(***************************************************************************)
EXTENDS Integers, Sequences, FiniteSets, TLC

\* ------------------------------------------------------------------ bounds
NumProcs == 2
NumNames == 1
NumPasswords == 2
MaxTemplateLen == 4
NumSecrets == 2
MaxTextLen == 2

Procs == 1..NumProcs
Names == {"u" \o ToString(i) : i \in 1..NumNames}
Passwords == {"p" \o ToString(i) : i \in 1..NumPasswords}

\* ------------------------------------------------------------- constants
clickhouseTypeName == "clickhouse"
onCluster == <<"ONCLUSTER">>
defaultChangePasswordStatement == <<"ALTER", ";">>
defaultUserNameTemplate == "default"

Absent == "absent"                \* no such account in system.users
UnboundPassword == "{{password}}" \* the placeholder left in the query text
NoErr == "nil"
Pending == "pending"

\* ------------------------------------------------------- string helpers
\* strings.TrimSpace on a token sequence
RECURSIVE TrimLeft(_)
TrimLeft(s) == IF s # <<>> /\ Head(s) = " " THEN TrimLeft(Tail(s)) ELSE s

RECURSIVE TrimRight(_)
TrimRight(s) ==
    IF s # <<>> /\ s[Len(s)] = " " THEN TrimRight(SubSeq(s, 1, Len(s) - 1)) ELSE s

TrimSpace(s) == TrimRight(TrimLeft(s))

\* strings.Split(s, ";")
RECURSIVE SplitAcc(_, _, _)
SplitAcc(s, cur, acc) ==
    IF s = <<>> THEN Append(acc, cur)
    ELSE IF Head(s) = ";" THEN SplitAcc(Tail(s), <<>>, Append(acc, cur))
    ELSE SplitAcc(Tail(s), Append(cur, Head(s)), acc)

Split(s) == SplitAcc(s, <<>>, <<>>)

\* base64.StdEncoding.DecodeString: a text is the base64 encoding of another
\* when every one of its tokens is an encoded token; SQL text, with its spaces
\* and quotes, is not
Base64Table ==
    [t \in {"b64(DROPIE)", "b64(;)", "b64( )"} |->
        CASE t = "b64(DROPIE)" -> "DROPIE" [] t = "b64(;)" -> ";" [] OTHER -> " "]

IsBase64(s) == \A i \in 1..Len(s) : s[i] \in DOMAIN Base64Table

Base64Decode(s) == [i \in 1..Len(s) |-> Base64Table[s[i]]]

\* json.Unmarshal([]byte(input), &ret) with ret []string: succeeds on a JSON
\* array of strings.  "[" and "]" are the brackets of an array of one string
\* (the quotes go with the brackets), the tokens between them are the string.
IsJsonArray(s) ==
    LET t == TrimSpace(s)
    IN  /\ Len(t) >= 2 /\ t[1] = "[" /\ t[Len(t)] = "]"
        /\ \A i \in 2..(Len(t) - 1) : t[i] \notin {"[", "]"}

JsonStrings(s) ==
    LET t == TrimSpace(s)
    IN  IF Len(t) = 2 THEN <<>> ELSE <<SubSeq(t, 2, Len(t) - 1)>>

\* strutil.ParseStringSlice(input, ";"): trim, split on the separator, trim each
ParseStringSlice(input) ==
    IF TrimSpace(input) = <<>> THEN <<>>
    ELSE LET parts == Split(TrimSpace(input))
         IN  [i \in 1..Len(parts) |-> TrimSpace(parts[i])]

\* strutil.ParseArbitraryStringSlice(stmt, ";"): trim; take the base64
\* decoding of the input if it has one; return the strings of a JSON array
\* as they are; split anything else on the separator
ParseArbitraryStringSlice(stmt) ==
    IF TrimSpace(stmt) = <<>> THEN <<>>
    ELSE LET input == IF IsBase64(TrimSpace(stmt))
                      THEN Base64Decode(TrimSpace(stmt)) ELSE TrimSpace(stmt)
         IN  IF IsJsonArray(input) THEN JsonStrings(input)
             ELSE ParseStringSlice(input)

\* fmt.Sprintf("%s %s", a, b)
SprintfSpace(a, b) == a \o <<" ">> \o b

\* faulty variant: the empty pieces are not skipped
RECURSIVE NonEmptyQueriesKeepsEmpty(_)
NonEmptyQueriesKeepsEmpty(parts) ==
    IF parts = <<>> THEN <<>>
    ELSE <<TrimSpace(Head(parts))>> \o NonEmptyQueriesKeepsEmpty(Tail(parts))

\* the inner loop of the three statement loops: TrimSpace, skip empty pieces
RECURSIVE NonEmptyQueries(_)
NonEmptyQueries(parts) ==
    IF parts = <<>> THEN <<>>
    ELSE LET query == TrimSpace(Head(parts))
         IN  IF Len(query) = 0 THEN NonEmptyQueries(Tail(parts))
             ELSE <<query>> \o NonEmptyQueries(Tail(parts))

\* the outer loop: for _, stmt := range stmts { for _, query := range ... }
RECURSIVE StatementQueries(_)
StatementQueries(stmts) ==
    IF stmts = <<>> THEN <<>>
    ELSE NonEmptyQueries(ParseArbitraryStringSlice(Head(stmts)))
            \o StatementQueries(Tail(stmts))

\* ------------------------------------------------------------ the database
NoQuery == [toks |-> <<>>, user |-> "", pw |-> ""]

\* dbutil.QueryHelper: replace {{name}}, {{username}}, {{password}} by the
\* values of the map m; a placeholder without a binding stays in the text
QueryHelper(query, m) ==
    [toks |-> query,
     user |-> IF "username" \in DOMAIN m THEN m["username"] ELSE "{{username}}",
     pw   |-> IF "password" \in DOMAIN m THEN m["password"] ELSE UnboundPassword]

\* the statement without its trailing delimiters and whitespace
RECURSIVE StripTail(_)
StripTail(s) ==
    IF s # <<>> /\ s[Len(s)] \in {";", " "}
    THEN StripTail(SubSeq(s, 1, Len(s) - 1)) ELSE s

Commands == {"CREATE", "GRANT", "ALTER", "DROP", "DROPIE"}

WellFormed(toks) ==
    LET b == StripTail(toks)
    IN  \/ Len(b) = 1 /\ b[1] \in Commands
        \/ Len(b) = 3 /\ b[1] \in Commands /\ b[2] = " " /\ b[3] = "ONCLUSTER"

HasClusterClause(toks) ==
    LET b == StripTail(toks) IN Len(b) = 3 /\ b[3] = "ONCLUSTER"

\* The statements whose text carries the placeholder {{password}}, as
\* CREATE USER ... IDENTIFIED BY '{{password}}' and the default
\* ALTER USER "{{username}}" IDENTIFIED BY '{{password}}' do
UsesPassword(toks) ==
    StripTail(toks) # <<>> /\ StripTail(toks)[1] \in {"CREATE", "ALTER"}

\* Does the server accept statement q on the account table view?
SqlAccepts(view, q, hasCluster) ==
    /\ WellFormed(q.toks)
    /\ HasClusterClause(q.toks) => hasCluster
    /\ q.user \in DOMAIN view
    /\ LET cmd == StripTail(q.toks)[1]
       IN  CASE cmd = "CREATE" -> view[q.user] = Absent
             [] cmd \in {"GRANT", "ALTER", "DROP"} -> view[q.user] # Absent
             [] OTHER -> TRUE

\* The account table after the accepted statement q
SqlApply(view, q) ==
    LET cmd == StripTail(q.toks)[1]
    IN  CASE cmd \in {"CREATE", "ALTER"} -> [view EXCEPT ![q.user] = q.pw]
          [] cmd \in {"DROP", "DROPIE"} -> [view EXCEPT ![q.user] = Absent]
          [] OTHER -> view

\* Outcome of one statement round-trip: the new account table, or "error"
\* (rejected by the server, or the round-trip itself failed: network, context)
ExecOutcome(view, q, hasCluster, delivered) ==
    IF delivered /\ SqlAccepts(view, q, hasCluster)
    THEN [ok |-> TRUE, view |-> SqlApply(view, q)]
    ELSE [ok |-> FALSE, view |-> view]

\* --------------------------------------------------------------- requests
CreationStatementSets ==
    { <<>>,
      << <<"CREATE", ";", " ", ";", "GRANT", ";">> >>,
      << <<"CREATE", ";">>, <<"BAD", ";">> >>,
      << <<"GRANT", ";">> >> }

RotationStatementSets ==
    { <<>>,
      << <<" ", "ALTER", ";">> >>,
      << <<"ALTER", ";", "BAD">> >> }

RevocationStatementSets ==
    { <<>>,
      << <<" ", "DROP", ";">> >>,
      << <<"DROP", ";", "BAD", ";">> >>,
      << <<"ALTER", ";">> >> }

NoReq ==
    [op |-> "none", stmts |-> <<>>, username |-> "", password |-> "",
     hasPassword |-> FALSE, hasExpiration |-> FALSE,
     url |-> "", verify |-> FALSE, template |-> ""]

\* dbplugin.NewUserRequest{Statements, Password}
NewUserRequests ==
    { [NoReq EXCEPT !.op = "NewUser", !.stmts = s, !.password = pw,
                    !.hasPassword = TRUE]
        : s \in CreationStatementSets, pw \in Passwords }

\* dbplugin.UpdateUserRequest{Username, Password *ChangePassword, Expiration}
UpdateUserRequests ==
    { [NoReq EXCEPT !.op = "UpdateUser", !.username = u, !.stmts = s,
                    !.password = pw, !.hasPassword = TRUE]
        : u \in Names, s \in RotationStatementSets, pw \in Passwords }
    \cup
    { [NoReq EXCEPT !.op = "UpdateUser", !.username = u, !.stmts = s,
                    !.hasPassword = TRUE, !.hasExpiration = e]
        : u \in Names, s \in {<<>>, << <<" ", "ALTER", ";">> >>}, e \in BOOLEAN }
    \cup
    { [NoReq EXCEPT !.op = "UpdateUser", !.password = pw, !.hasPassword = TRUE]
        : pw \in Passwords \cup {""} }
    \cup
    { [NoReq EXCEPT !.op = "UpdateUser", !.username = u, !.hasExpiration = e]
        : u \in Names \cup {""}, e \in BOOLEAN }

\* dbplugin.DeleteUserRequest{Username, Statements}
DeleteUserRequests ==
    { [NoReq EXCEPT !.op = "DeleteUser", !.username = u, !.stmts = s]
        : u \in Names, s \in RevocationStatementSets }

\* dbplugin.InitializeRequest{Config, VerifyConnection}
UsernameTemplates == {"", "nonstring", "badsyntax", "badgenerate"}

InitializeRequests ==
    { [NoReq EXCEPT !.op = "Initialize", !.url = "clickhouse://", !.template = t]
        : t \in UsernameTemplates }
    \cup
    { [NoReq EXCEPT !.op = "Initialize", !.url = c, !.verify = TRUE]
        : c \in {"", "clickhouse://"} }

\* ------------------------------------------------------------------- state
VARIABLES
    users,             \* database: account name -> password, or Absent
    cluster,           \* database: system.macros has the macro 'cluster'
    Initialized,       \* SQLConnectionProducer.Initialized
    Password,          \* SQLConnectionProducer.Password
    handle,            \* SQLConnectionProducer.db: "nil", "open" or "closed"
    usernameProducer,  \* Clickhouse.usernameProducer
    mutex,             \* SQLConnectionProducer's sync.Mutex: 0 or the holder
    pc,                \* position of each caller
    req,               \* the request of the call in progress
    loc,               \* the call's local variables
    log,               \* what the call did so far (history of the call)
    resp               \* the call's return values

dbVars == <<users, cluster>>
plugVars == <<Initialized, Password, handle, usernameProducer, mutex>>
procVars == <<pc, req, loc, log, resp>>
vars == <<users, cluster, Initialized, Password, handle, usernameProducer, mutex,
          pc, req, loc, log, resp>>

NoLoc ==
    [username |-> "", stmts |-> <<>>, queries |-> <<>>, tx |-> "none",
     txView |-> [n \in Names |-> Absent], snap |-> [n \in Names |-> Absent],
     exists |-> FALSE, isCluster |-> FALSE, closeDb |-> FALSE, ctx |-> "live"]

NoResp == [err |-> Pending, username |-> "", text |-> <<>>]

Ev(ev, q, r) == [ev |-> ev, q |-> q, r |-> r]

\* new(): a producer that was never initialized, an empty database
Init ==
    /\ users = [n \in Names |-> Absent]
    /\ cluster \in BOOLEAN
    /\ Initialized = FALSE
    /\ Password = ""
    /\ handle = "nil"
    /\ usernameProducer = "none"
    /\ mutex = 0
    /\ pc = [p \in Procs |-> "idle"]
    /\ req = [p \in Procs |-> NoReq]
    /\ loc = [p \in Procs |-> NoLoc]
    /\ log = [p \in Procs |-> <<>>]
    /\ resp = [p \in Procs |-> NoResp]

\* --------------------------------------------------------- shared steps
Goto(p, l) == pc' = [pc EXCEPT ![p] = l]
Logged(p, e) == log' = [log EXCEPT ![p] = Append(@, e)]
ReturnsText(p, e, u, t) ==
    resp' = [resp EXCEPT ![p] = [err |-> e, username |-> u, text |-> t]]

Returns(p, e, u) == ReturnsText(p, e, u, IF e = NoErr THEN <<>> ELSE <<e>>)

\* faulty variant: a round-trip does not look at the context
HonorsNothing(p, ok) == TRUE

\* a round-trip made with ctx (BeginTx, ExecContext, and Commit of a Tx begun
\* with ctx) cannot succeed once the context of the call is done
Honors(p, ok) == loc[p].ctx = "done" => ~ok

\* QueryRowContext(ctx, ...).Scan: the context's error is not sql.ErrNoRows
HonorsQuery(p, outcome) == loc[p].ctx = "done" => outcome = "error"

\* template.StringTemplate.Generate: the zero value and a template that
\* cannot be evaluated give an error
CanGenerate(up) == up = defaultUserNameTemplate

\* faulty variant: the connection is handed out whatever the flag says
getConnectionAlwaysOk == TRUE

\* getConnection: c.Connection(ctx) fails when the producer is not initialized;
\* otherwise it returns the handle, reopening it when the ping fails
getConnectionOk == Initialized

\* a Lock that does not wait for the holder
LockNoWait(p) == mutex' = p

\* c.Lock()
Lock(p) == mutex = 0 /\ mutex' = p

\* faulty variant: the call returns with the mutex still locked
UnlockForgotten(p) ==
    /\ pc[p] = "unlock"
    /\ mutex = p
    /\ Goto(p, "idle")
    /\ req' = [req EXCEPT ![p] = NoReq]
    /\ loc' = [loc EXCEPT ![p] = NoLoc]
    /\ log' = [log EXCEPT ![p] = <<>>]
    /\ resp' = [resp EXCEPT ![p] = NoResp]
    /\ UNCHANGED <<dbVars, plugVars>>

\* defer c.Unlock(): the last thing a lifecycle call does before it returns
\* to its caller, who takes the response; the call's frame is gone
Unlock(p) ==
    /\ pc[p] = "unlock"
    /\ mutex = p
    /\ mutex' = 0
    /\ Goto(p, "idle")
    /\ req' = [req EXCEPT ![p] = NoReq]
    /\ loc' = [loc EXCEPT ![p] = NoLoc]
    /\ log' = [log EXCEPT ![p] = <<>>]
    /\ resp' = [resp EXCEPT ![p] = NoResp]
    /\ UNCHANGED <<dbVars, Initialized, Password, handle, usernameProducer>>

\* return of a call that holds no lock: the caller takes the response
Return(p) ==
    /\ pc[p] = "return"
    /\ Goto(p, "idle")
    /\ req' = [req EXCEPT ![p] = NoReq]
    /\ loc' = [loc EXCEPT ![p] = NoLoc]
    /\ log' = [log EXCEPT ![p] = <<>>]
    /\ resp' = [resp EXCEPT ![p] = NoResp]
    /\ UNCHANGED <<dbVars, plugVars>>

\* faulty variant: the deferred call commits the open transaction
RollbackCommits(p) ==
    /\ pc[p] = "rollback"
    /\ IF loc[p].tx = "open"
       THEN /\ users' = loc[p].txView
            /\ loc' = [loc EXCEPT ![p].tx = "committed"]
            /\ Logged(p, Ev("rollback", NoQuery, "ok"))
       ELSE UNCHANGED <<users, loc, log>>
    /\ Goto(p, "unlock")
    /\ UNCHANGED <<cluster, plugVars, req, resp>>

\* faulty variant: the deferred call undoes what the transaction committed
RollbackUndoesCommit(p) ==
    /\ pc[p] = "rollback"
    /\ IF loc[p].tx = "open"
       THEN /\ loc' = [loc EXCEPT ![p].tx = "rolledback", ![p].txView = NoLoc.txView]
            /\ Logged(p, Ev("rollback", NoQuery, "ok"))
            /\ UNCHANGED users
       ELSE /\ users' = IF loc[p].tx = "committed" THEN loc[p].snap ELSE users
            /\ UNCHANGED <<loc, log>>
    /\ Goto(p, "unlock")
    /\ UNCHANGED <<cluster, plugVars, req, resp>>

\* defer tx.Rollback(): aborts an open transaction; after Commit it is a no-op
\* (sql.ErrTxDone, ignored)
Rollback(p) ==
    /\ pc[p] = "rollback"
    /\ IF loc[p].tx = "open"
       THEN /\ loc' = [loc EXCEPT ![p].tx = "rolledback", ![p].txView = NoLoc.txView]
            /\ Logged(p, Ev("rollback", NoQuery, "ok"))
       ELSE UNCHANGED <<loc, log>>
    /\ Goto(p, "unlock")
    /\ UNCHANGED <<dbVars, plugVars, req, resp>>

\* ------------------------------------------------- reading the requests
CommandsOf(stmts) ==
    LET qs == StatementQueries(stmts) IN {qs[i][1] : i \in 1..Len(qs)}

\* the statements of the request act on the request's account in the way
\* the operation is meant to: creation creates, rotation alters, revocation drops
ActsOnAccount(r) ==
    LET cs == CommandsOf(r.stmts)
    IN  CASE r.op = "NewUser" ->
               r.stmts = <<>> \/ ("CREATE" \in cs /\ cs \cap {"ALTER", "DROP", "DROPIE"} = {})
          [] r.op = "UpdateUser" ->
               r.stmts = <<>> \/ ("ALTER" \in cs /\ cs \cap {"CREATE", "DROP", "DROPIE"} = {})
          [] r.op = "DeleteUser" ->
               r.stmts = <<>> \/ (cs \cap {"DROP", "DROPIE"} # {} /\ cs \cap {"CREATE", "ALTER"} = {})
          [] OTHER -> TRUE

Called(p, r) ==
    /\ pc[p] = "idle"
    /\ req' = [req EXCEPT ![p] = r]

\* ------------------------------------------------------------- Initialize
\* Initialize, first part: p.SQLConnectionProducer.Init (under the producer's
\* mutex): decode the configuration into the producer's fields (Password among
\* them), check connection_url, set Initialized, verify the connection; the
\* driver's error may quote the connection string, password included
Initialize(p, r, pingOk) ==
    /\ Called(p, r)
    /\ mutex = 0
    /\ Password' = r.password
    /\ IF r.url = ""
       THEN /\ Returns(p, "connection_url cannot be empty", "")
            /\ Goto(p, "return")
            /\ UNCHANGED <<Initialized, handle>>
       ELSE /\ Initialized' = TRUE
            /\ IF r.verify
               THEN /\ handle' = "open"
                    /\ IF pingOk
                       THEN Goto(p, "Initialize_template") /\ UNCHANGED resp
                       ELSE ReturnsText(p, "error verifying connection", "",
                                        <<"error verifying connection", r.password>>)
                            /\ Goto(p, "return")
               ELSE /\ Goto(p, "Initialize_template")
                    /\ UNCHANGED <<handle, resp>>
    /\ UNCHANGED <<dbVars, usernameProducer, mutex, loc, log>>

\* faulty variant: the installed template is not tried on empty metadata
InitializeTemplateNotTried(p) ==
    /\ pc[p] = "Initialize_template"
    /\ LET t == IF req[p].template = "" THEN defaultUserNameTemplate
                ELSE req[p].template
       IN  CASE req[p].template = "nonstring" ->
                  /\ Returns(p, "failed to retrieve username_template", "")
                  /\ UNCHANGED usernameProducer
             [] req[p].template = "badsyntax" ->
                  /\ Returns(p, "unable to initialize username template", "")
                  /\ UNCHANGED usernameProducer
             [] OTHER ->
                  /\ usernameProducer' = t
                  /\ Returns(p, NoErr, "")
    /\ Goto(p, "return")
    /\ UNCHANGED <<dbVars, Initialized, Password, handle, mutex, req, loc, log>>

\* Initialize, second part: read, compile, install and try the username template
InitializeTemplate(p) ==
    /\ pc[p] = "Initialize_template"
    /\ LET t == IF req[p].template = "" THEN defaultUserNameTemplate
                ELSE req[p].template
       IN  CASE req[p].template = "nonstring" ->
                  /\ Returns(p, "failed to retrieve username_template", "")
                  /\ UNCHANGED usernameProducer
             [] req[p].template = "badsyntax" ->
                  /\ Returns(p, "unable to initialize username template", "")
                  /\ UNCHANGED usernameProducer
             [] OTHER ->
                  /\ usernameProducer' = t
                  /\ IF CanGenerate(t) THEN Returns(p, NoErr, "")
                     ELSE Returns(p, "invalid username template", "")
    /\ Goto(p, "return")
    /\ UNCHANGED <<dbVars, Initialized, Password, handle, mutex, req, loc, log>>

\* ---------------------------------------------------------------- NewUser
\* faulty variant: no check of the creation statements
NewUserNoCheck(p, r) ==
    /\ Called(p, r)
    /\ Goto(p, "NewUser_lock")
    /\ UNCHANGED <<dbVars, plugVars, loc, log, resp>>

\* NewUser, entry: the empty creation statement set is refused before the lock
NewUser(p, r) ==
    /\ Called(p, r)
    /\ IF Len(r.stmts) = 0
       THEN Returns(p, "ErrEmptyCreationStatement", "") /\ Goto(p, "return")
       ELSE Goto(p, "NewUser_lock") /\ UNCHANGED resp
    /\ UNCHANGED <<dbVars, plugVars, loc, log>>

NewUserLock(p) ==
    /\ pc[p] = "NewUser_lock"
    /\ Lock(p)
    /\ loc' = [loc EXCEPT ![p].snap = users]
    /\ Goto(p, "NewUser_generate")
    /\ UNCHANGED <<dbVars, Initialized, Password, handle, usernameProducer, req, log, resp>>

NewUserGenerate(p) ==
    /\ pc[p] = "NewUser_generate"
    /\ IF CanGenerate(usernameProducer)
       THEN /\ \E u \in Names : loc' = [loc EXCEPT ![p].username = u]
            /\ Logged(p, Ev("generate", NoQuery, "ok"))
            /\ Goto(p, "NewUser_connection")
            /\ UNCHANGED resp
       ELSE /\ Returns(p, "generate", "")
            /\ Goto(p, "unlock")
            /\ UNCHANGED <<loc, log>>
    /\ UNCHANGED <<dbVars, plugVars, req>>

NewUserConnection(p) ==
    /\ pc[p] = "NewUser_connection"
    /\ IF getConnectionOk
       THEN /\ handle' = "open"
            /\ Logged(p, Ev("connection", NoQuery, "ok"))
            /\ Goto(p, "NewUser_begin")
            /\ UNCHANGED resp
       ELSE /\ Returns(p, "unable to get connection", "")
            /\ Goto(p, "unlock")
            /\ UNCHANGED <<handle, log>>
    /\ UNCHANGED <<dbVars, Initialized, Password, usernameProducer, mutex, req, loc>>

\* query = query + ";" for every non-empty piece of every creation statement
NewUserQueries(stmts) ==
    LET qs == StatementQueries(stmts)
    IN  [i \in 1..Len(qs) |-> qs[i] \o <<";">>]

NewUserBeginTx(p, ok) ==
    /\ pc[p] = "NewUser_begin"
    /\ Honors(p, ok)
    /\ IF ok
       THEN /\ loc' = [loc EXCEPT ![p].tx = "open", ![p].txView = users,
                                  ![p].queries = NewUserQueries(req[p].stmts)]
            /\ Logged(p, Ev("begin", NoQuery, "ok"))
            /\ Goto(p, IF NewUserQueries(req[p].stmts) = <<>>
                       THEN "NewUser_commit" ELSE "NewUser_exec")
            /\ UNCHANGED resp
       ELSE /\ Returns(p, "unable to start transaction", "")
            /\ Goto(p, "unlock")
            /\ UNCHANGED <<loc, log>>
    /\ UNCHANGED <<dbVars, plugVars, req>>

\* faulty variant: the password placeholder bound to the username
NewUserBindingsPasswordIsName(p) ==
    [k \in {"name", "username", "password"} |-> loc[p].username]

NewUserBindings(p) ==
    [k \in {"name", "username", "password"} |->
        IF k = "password" THEN req[p].password ELSE loc[p].username]

\* one dbtxn.ExecuteTxQueryDirect of the loop; the first failure ends the call
NewUserExec(p, delivered) ==
    /\ pc[p] = "NewUser_exec"
    /\ Honors(p, delivered)
    /\ LET q == QueryHelper(Head(loc[p].queries), NewUserBindings(p))
           out == ExecOutcome(loc[p].txView, q, cluster, delivered)
       IN  IF out.ok
           THEN /\ loc' = [loc EXCEPT ![p].txView = out.view,
                                      ![p].queries = Tail(@)]
                /\ Logged(p, Ev("exec", q, "ok"))
                /\ Goto(p, IF Tail(loc[p].queries) = <<>>
                           THEN "NewUser_commit" ELSE "NewUser_exec")
                /\ UNCHANGED resp
           ELSE /\ Returns(p, "failed to execute query", "")
                /\ Logged(p, Ev("exec", q, "error"))
                /\ Goto(p, "rollback")
                /\ UNCHANGED loc
    /\ UNCHANGED <<dbVars, plugVars, req>>

\* faulty variant: the response carries the username whatever Commit answers
NewUserCommitKeepsUsername(p, ok) ==
    /\ pc[p] = "NewUser_commit"
    /\ IF ok
       THEN /\ users' = loc[p].txView
            /\ loc' = [loc EXCEPT ![p].tx = "committed"]
            /\ Logged(p, Ev("commit", NoQuery, "ok"))
            /\ Returns(p, NoErr, loc[p].username)
       ELSE /\ loc' = [loc EXCEPT ![p].tx = "failed"]
            /\ Logged(p, Ev("commit", NoQuery, "error"))
            /\ Returns(p, "commit", loc[p].username)
            /\ UNCHANGED users
    /\ Goto(p, "rollback")
    /\ UNCHANGED <<cluster, plugVars, req>>

NewUserCommit(p, ok) ==
    /\ pc[p] = "NewUser_commit"
    /\ Honors(p, ok)
    /\ IF ok
       THEN /\ users' = loc[p].txView
            /\ loc' = [loc EXCEPT ![p].tx = "committed"]
            /\ Logged(p, Ev("commit", NoQuery, "ok"))
            /\ Returns(p, NoErr, loc[p].username)
       ELSE /\ loc' = [loc EXCEPT ![p].tx = "failed"]
            /\ Logged(p, Ev("commit", NoQuery, "error"))
            /\ Returns(p, "commit", "")
            /\ UNCHANGED users
    /\ Goto(p, "rollback")
    /\ UNCHANGED <<cluster, plugVars, req>>

\* ------------------------------------------------------------- UpdateUser
QueryOutcomes == {"row", "norows", "error"}

\* how a query that did not fail is recorded in the call's history
Answer(outcome, b) ==
    IF outcome = "norows" THEN "norows" ELSE IF b THEN "true" ELSE "false"

\* faulty variant: the empty new password is not refused
UpdateUserNoPasswordCheck(p, r) ==
    /\ Called(p, r)
    /\ CASE r.username = "" ->
              Returns(p, "missing username", "") /\ Goto(p, "return")
         [] r.username # "" /\ ~r.hasPassword /\ ~r.hasExpiration ->
              Returns(p, "no changes requested", "") /\ Goto(p, "return")
         [] r.username # "" /\ ~r.hasPassword /\ r.hasExpiration ->
              Returns(p, NoErr, "") /\ Goto(p, "return")
         [] OTHER ->
              Goto(p, "changeUserPassword_lock") /\ UNCHANGED resp
    /\ UNCHANGED <<dbVars, plugVars, loc, log>>

\* UpdateUser and the head of changeUserPassword: the checks made before the lock
UpdateUser(p, r) ==
    /\ Called(p, r)
    /\ CASE r.username = "" ->
              Returns(p, "missing username", "") /\ Goto(p, "return")
         [] r.username # "" /\ ~r.hasPassword /\ ~r.hasExpiration ->
              Returns(p, "no changes requested", "") /\ Goto(p, "return")
         [] r.username # "" /\ ~r.hasPassword /\ r.hasExpiration ->
              Returns(p, NoErr, "") /\ Goto(p, "return")
         [] r.username # "" /\ r.hasPassword /\ r.password = "" ->
              Returns(p, "missing password", "") /\ Goto(p, "return")
         [] OTHER ->
              Goto(p, "changeUserPassword_lock") /\ UNCHANGED resp
    /\ UNCHANGED <<dbVars, plugVars, loc, log>>

changeUserPasswordLock(p) ==
    /\ pc[p] = "changeUserPassword_lock"
    /\ Lock(p)
    /\ loc' = [loc EXCEPT ![p].snap = users, ![p].stmts = req[p].stmts,
                          ![p].username = req[p].username]
    /\ Goto(p, "changeUserPassword_connection")
    /\ UNCHANGED <<dbVars, Initialized, Password, handle, usernameProducer, req, log, resp>>

changeUserPasswordConnection(p) ==
    /\ pc[p] = "changeUserPassword_connection"
    /\ IF getConnectionOk
       THEN /\ handle' = "open"
            /\ Logged(p, Ev("connection", NoQuery, "ok"))
            /\ Goto(p, IF Len(loc[p].stmts) = 0 THEN "changeUserPassword_probe"
                       ELSE "changeUserPassword_exists")
            /\ UNCHANGED resp
       ELSE /\ Returns(p, "unable to get connection", "")
            /\ Goto(p, "unlock")
            /\ UNCHANGED <<handle, log>>
    /\ UNCHANGED <<dbVars, Initialized, Password, usernameProducer, mutex, req, loc>>

\* isClusterExist: no rows is the answer false, any other error is returned
isClusterExist(outcome) == outcome = "row" /\ cluster

\* the default statement, with the cluster clause appended when the probe says so
DefaultChangePassword(isCluster) ==
    IF isCluster THEN SprintfSpace(defaultChangePasswordStatement, onCluster)
    ELSE defaultChangePasswordStatement

\* if len(stmts) == 0 { ... isClusterExist ... stmts = []string{stmt} }
changeUserPasswordProbe(p, outcome) ==
    /\ pc[p] = "changeUserPassword_probe"
    /\ HonorsQuery(p, outcome)
    /\ IF ~getConnectionOk \/ outcome = "error"
       THEN /\ Returns(p, "probe", "")
            /\ Logged(p, Ev("probe", NoQuery, "error"))
            /\ Goto(p, "unlock")
            /\ UNCHANGED loc
       ELSE /\ loc' = [loc EXCEPT ![p].isCluster = isClusterExist(outcome),
                         ![p].stmts = <<DefaultChangePassword(isClusterExist(outcome))>>]
            /\ Logged(p, Ev("probe", NoQuery, Answer(outcome, isClusterExist(outcome))))
            /\ Goto(p, "changeUserPassword_exists")
            /\ UNCHANGED resp
    /\ UNCHANGED <<dbVars, plugVars, req>>

\* the answer of SELECT c > 0 AS exists ... scanned into exists
UserExists(outcome, u) == outcome = "row" /\ users[u] # Absent

\* faulty variant: an account reported absent ends the call
changeUserPasswordExistsGates(p, outcome) ==
    /\ pc[p] = "changeUserPassword_exists"
    /\ HonorsQuery(p, outcome)
    /\ IF outcome = "error" \/ ~UserExists(outcome, loc[p].username)
       THEN /\ Returns(p, IF outcome = "error" THEN "exists" ELSE NoErr, "")
            /\ Logged(p, Ev("exists", NoQuery,
                            IF outcome = "error" THEN "error"
                            ELSE Answer(outcome, FALSE)))
            /\ Goto(p, "unlock")
            /\ UNCHANGED loc
       ELSE /\ loc' = [loc EXCEPT ![p].exists = TRUE]
            /\ Logged(p, Ev("exists", NoQuery, Answer(outcome, TRUE)))
            /\ Goto(p, "changeUserPassword_begin")
            /\ UNCHANGED resp
    /\ UNCHANGED <<dbVars, plugVars, req>>

\* "Check if the user exists": only an error other than ErrNoRows ends the call
changeUserPasswordExists(p, outcome) ==
    /\ pc[p] = "changeUserPassword_exists"
    /\ HonorsQuery(p, outcome)
    /\ IF outcome = "error"
       THEN /\ Returns(p, "exists", "")
            /\ Logged(p, Ev("exists", NoQuery, "error"))
            /\ Goto(p, "unlock")
            /\ UNCHANGED loc
       ELSE /\ loc' = [loc EXCEPT ![p].exists = UserExists(outcome, loc[p].username)]
            /\ Logged(p, Ev("exists", NoQuery,
                            Answer(outcome, UserExists(outcome, loc[p].username))))
            /\ Goto(p, "changeUserPassword_begin")
            /\ UNCHANGED resp
    /\ UNCHANGED <<dbVars, plugVars, req>>

changeUserPasswordBeginTx(p, ok) ==
    /\ pc[p] = "changeUserPassword_begin"
    /\ Honors(p, ok)
    /\ IF ok
       THEN /\ loc' = [loc EXCEPT ![p].tx = "open", ![p].txView = users,
                                  ![p].queries = StatementQueries(loc[p].stmts)]
            /\ Logged(p, Ev("begin", NoQuery, "ok"))
            /\ Goto(p, IF StatementQueries(loc[p].stmts) = <<>>
                       THEN "changeUserPassword_commit"
                       ELSE "changeUserPassword_exec")
            /\ UNCHANGED resp
       ELSE /\ Returns(p, "unable to start transaction", "")
            /\ Goto(p, "unlock")
            /\ UNCHANGED <<loc, log>>
    /\ UNCHANGED <<dbVars, plugVars, req>>

changeUserPasswordBindings(p) ==
    [k \in {"name", "username", "password"} |->
        IF k = "password" THEN req[p].password ELSE loc[p].username]

\* faulty variant: the statements run on the handle, not in the transaction
changeUserPasswordExecOnHandle(p, delivered) ==
    /\ pc[p] = "changeUserPassword_exec"
    /\ LET q == QueryHelper(Head(loc[p].queries), changeUserPasswordBindings(p))
           out == ExecOutcome(users, q, cluster, delivered)
       IN  IF out.ok
           THEN /\ users' = out.view
                /\ loc' = [loc EXCEPT ![p].txView = out.view,
                                      ![p].queries = Tail(@)]
                /\ Logged(p, Ev("exec", q, "ok"))
                /\ Goto(p, IF Tail(loc[p].queries) = <<>>
                           THEN "changeUserPassword_commit"
                           ELSE "changeUserPassword_exec")
                /\ UNCHANGED resp
           ELSE /\ Returns(p, "failed to execute query", "")
                /\ Logged(p, Ev("exec", q, "error"))
                /\ Goto(p, "rollback")
                /\ UNCHANGED <<users, loc>>
    /\ UNCHANGED <<cluster, plugVars, req>>

\* faulty variant: a failing fragment is tried again
changeUserPasswordExecRetries(p, delivered) ==
    /\ pc[p] = "changeUserPassword_exec"
    /\ Honors(p, delivered)
    /\ LET q == QueryHelper(Head(loc[p].queries), changeUserPasswordBindings(p))
           out == ExecOutcome(loc[p].txView, q, cluster, delivered)
       IN  IF out.ok
           THEN /\ loc' = [loc EXCEPT ![p].txView = out.view,
                                      ![p].queries = Tail(@)]
                /\ Logged(p, Ev("exec", q, "ok"))
                /\ Goto(p, IF Tail(loc[p].queries) = <<>>
                           THEN "changeUserPassword_commit"
                           ELSE "changeUserPassword_exec")
                /\ UNCHANGED resp
           ELSE /\ Len(log[p]) < 6
                /\ Logged(p, Ev("exec", q, "error"))
                /\ UNCHANGED <<pc, loc, resp>>
    /\ UNCHANGED <<dbVars, plugVars, req>>

changeUserPasswordExec(p, delivered) ==
    /\ pc[p] = "changeUserPassword_exec"
    /\ Honors(p, delivered)
    /\ LET q == QueryHelper(Head(loc[p].queries), changeUserPasswordBindings(p))
           out == ExecOutcome(loc[p].txView, q, cluster, delivered)
       IN  IF out.ok
           THEN /\ loc' = [loc EXCEPT ![p].txView = out.view,
                                      ![p].queries = Tail(@)]
                /\ Logged(p, Ev("exec", q, "ok"))
                /\ Goto(p, IF Tail(loc[p].queries) = <<>>
                           THEN "changeUserPassword_commit"
                           ELSE "changeUserPassword_exec")
                /\ UNCHANGED resp
           ELSE /\ Returns(p, "failed to execute query", "")
                /\ Logged(p, Ev("exec", q, "error"))
                /\ Goto(p, "rollback")
                /\ UNCHANGED loc
    /\ UNCHANGED <<dbVars, plugVars, req>>

changeUserPasswordCommit(p, ok) ==
    /\ pc[p] = "changeUserPassword_commit"
    /\ Honors(p, ok)
    /\ IF ok
       THEN /\ users' = loc[p].txView
            /\ loc' = [loc EXCEPT ![p].tx = "committed"]
            /\ Logged(p, Ev("commit", NoQuery, "ok"))
            /\ Returns(p, NoErr, "")
       ELSE /\ loc' = [loc EXCEPT ![p].tx = "failed"]
            /\ Logged(p, Ev("commit", NoQuery, "error"))
            /\ Returns(p, "commit", "")
            /\ UNCHANGED users
    /\ Goto(p, "rollback")
    /\ UNCHANGED <<cluster, plugVars, req>>

\* ------------------------------------------------------------- DeleteUser
\* DeleteUser, entry: the call waits for the mutex first
DeleteUser(p, r) ==
    /\ Called(p, r)
    /\ Goto(p, "DeleteUser_lock")
    /\ UNCHANGED <<dbVars, plugVars, loc, log, resp>>

\* faulty variant: DeleteUser does not wait for the holder of the mutex
DeleteUserLockNoWait(p) ==
    /\ pc[p] = "DeleteUser_lock"
    /\ LockNoWait(p)
    /\ loc' = [loc EXCEPT ![p].snap = users, ![p].stmts = req[p].stmts,
                          ![p].username = req[p].username]
    /\ Goto(p, IF Len(req[p].stmts) = 0 THEN "defaultDeleteUser_connection"
               ELSE "customDeleteUser_connection")
    /\ UNCHANGED <<dbVars, Initialized, Password, handle, usernameProducer, req, log, resp>>

\* c.Lock(), then the choice between the default and the custom path
DeleteUserLock(p) ==
    /\ pc[p] = "DeleteUser_lock"
    /\ Lock(p)
    /\ loc' = [loc EXCEPT ![p].snap = users, ![p].stmts = req[p].stmts,
                          ![p].username = req[p].username]
    /\ Goto(p, IF Len(req[p].stmts) = 0 THEN "defaultDeleteUser_connection"
               ELSE "customDeleteUser_connection")
    /\ UNCHANGED <<dbVars, Initialized, Password, handle, usernameProducer, req, log, resp>>

customDeleteUserConnection(p) ==
    /\ pc[p] = "customDeleteUser_connection"
    /\ IF getConnectionOk
       THEN /\ handle' = "open"
            /\ Logged(p, Ev("connection", NoQuery, "ok"))
            /\ Goto(p, "customDeleteUser_begin")
            /\ UNCHANGED resp
       ELSE /\ Returns(p, "connection", "")
            /\ Goto(p, "unlock")
            /\ UNCHANGED <<handle, log>>
    /\ UNCHANGED <<dbVars, Initialized, Password, usernameProducer, mutex, req, loc>>

customDeleteUserBeginTx(p, ok) ==
    /\ pc[p] = "customDeleteUser_begin"
    /\ Honors(p, ok)
    /\ IF ok
       THEN /\ loc' = [loc EXCEPT ![p].tx = "open", ![p].txView = users,
                                  ![p].queries = StatementQueries(loc[p].stmts)]
            /\ Logged(p, Ev("begin", NoQuery, "ok"))
            /\ Goto(p, IF StatementQueries(loc[p].stmts) = <<>>
                       THEN "customDeleteUser_commit"
                       ELSE "customDeleteUser_exec")
            /\ UNCHANGED resp
       ELSE /\ Returns(p, "begin", "")
            /\ Goto(p, "unlock")
            /\ UNCHANGED <<loc, log>>
    /\ UNCHANGED <<dbVars, plugVars, req>>

\* the revocation bindings have no password
customDeleteUserBindings(p) ==
    [k \in {"name", "username"} |-> loc[p].username]

\* faulty variant: a failing fragment is skipped and the loop goes on
customDeleteUserExecSkipsFailure(p, delivered) ==
    /\ pc[p] = "customDeleteUser_exec"
    /\ LET q == QueryHelper(Head(loc[p].queries), customDeleteUserBindings(p))
           out == ExecOutcome(loc[p].txView, q, cluster, delivered)
       IN  /\ loc' = [loc EXCEPT ![p].txView = out.view, ![p].queries = Tail(@)]
           /\ Logged(p, Ev("exec", q, IF out.ok THEN "ok" ELSE "error"))
           /\ Goto(p, IF Tail(loc[p].queries) = <<>>
                      THEN "customDeleteUser_commit"
                      ELSE "customDeleteUser_exec")
    /\ UNCHANGED <<dbVars, plugVars, req, resp>>

customDeleteUserExec(p, delivered) ==
    /\ pc[p] = "customDeleteUser_exec"
    /\ Honors(p, delivered)
    /\ LET q == QueryHelper(Head(loc[p].queries), customDeleteUserBindings(p))
           out == ExecOutcome(loc[p].txView, q, cluster, delivered)
       IN  IF out.ok
           THEN /\ loc' = [loc EXCEPT ![p].txView = out.view,
                                      ![p].queries = Tail(@)]
                /\ Logged(p, Ev("exec", q, "ok"))
                /\ Goto(p, IF Tail(loc[p].queries) = <<>>
                           THEN "customDeleteUser_commit"
                           ELSE "customDeleteUser_exec")
                /\ UNCHANGED resp
           ELSE /\ Returns(p, "exec", "")
                /\ Logged(p, Ev("exec", q, "error"))
                /\ Goto(p, "rollback")
                /\ UNCHANGED loc
    /\ UNCHANGED <<dbVars, plugVars, req>>

\* return tx.Commit()
customDeleteUserCommit(p, ok) ==
    /\ pc[p] = "customDeleteUser_commit"
    /\ Honors(p, ok)
    /\ IF ok
       THEN /\ users' = loc[p].txView
            /\ loc' = [loc EXCEPT ![p].tx = "committed"]
            /\ Logged(p, Ev("commit", NoQuery, "ok"))
            /\ Returns(p, NoErr, "")
       ELSE /\ loc' = [loc EXCEPT ![p].tx = "failed"]
            /\ Logged(p, Ev("commit", NoQuery, "error"))
            /\ Returns(p, "commit", "")
            /\ UNCHANGED users
    /\ Goto(p, "rollback")
    /\ UNCHANGED <<cluster, plugVars, req>>

defaultDeleteUserConnection(p) ==
    /\ pc[p] = "defaultDeleteUser_connection"
    /\ IF getConnectionOk
       THEN /\ handle' = "open"
            /\ Logged(p, Ev("connection", NoQuery, "ok"))
            /\ Goto(p, "defaultDeleteUser_exists")
            /\ UNCHANGED resp
       ELSE /\ Returns(p, "connection", "")
            /\ Goto(p, "unlock")
            /\ UNCHANGED <<handle, log>>
    /\ UNCHANGED <<dbVars, Initialized, Password, usernameProducer, mutex, req, loc>>

\* faulty variant: the call goes on to the probe whatever the check answered
defaultDeleteUserExistsNoReturn(p, outcome) ==
    /\ pc[p] = "defaultDeleteUser_exists"
    /\ IF outcome = "error"
       THEN /\ Returns(p, "exists", "")
            /\ Logged(p, Ev("exists", NoQuery, "error"))
            /\ Goto(p, "unlock")
            /\ UNCHANGED loc
       ELSE /\ loc' = [loc EXCEPT ![p].exists = UserExists(outcome, loc[p].username)]
            /\ Logged(p, Ev("exists", NoQuery,
                            Answer(outcome, UserExists(outcome, loc[p].username))))
            /\ Goto(p, "defaultDeleteUser_probe")
            /\ UNCHANGED resp
    /\ UNCHANGED <<dbVars, plugVars, req>>

\* "Check if the user exists"; if !exists { return nil }
defaultDeleteUserExists(p, outcome) ==
    /\ pc[p] = "defaultDeleteUser_exists"
    /\ HonorsQuery(p, outcome)
    /\ IF outcome = "error"
       THEN /\ Returns(p, "exists", "")
            /\ Logged(p, Ev("exists", NoQuery, "error"))
            /\ Goto(p, "unlock")
            /\ UNCHANGED loc
       ELSE /\ loc' = [loc EXCEPT ![p].exists = UserExists(outcome, loc[p].username)]
            /\ Logged(p, Ev("exists", NoQuery,
                            Answer(outcome, UserExists(outcome, loc[p].username))))
            /\ IF UserExists(outcome, loc[p].username)
               THEN /\ Goto(p, "defaultDeleteUser_probe")
                    /\ UNCHANGED resp
               ELSE /\ Returns(p, NoErr, "")
                    /\ Goto(p, "unlock")
    /\ UNCHANGED <<dbVars, plugVars, req>>

\* faulty variant: the call does not probe, it takes the flag as it finds it
defaultDeleteUserProbeSkipped(p, outcome) ==
    /\ pc[p] = "defaultDeleteUser_probe"
    /\ HonorsQuery(p, outcome)
    /\ IF ~getConnectionOk
       THEN /\ Returns(p, "probe", "")
            /\ Logged(p, Ev("probe", NoQuery, "error"))
            /\ Goto(p, "unlock")
       ELSE /\ Goto(p, "defaultDeleteUser_drop")
            /\ UNCHANGED <<resp, log>>
    /\ UNCHANGED <<dbVars, plugVars, req, loc>>

\* faulty variant: a probe without rows fails the call
defaultDeleteUserProbeNoRowsFails(p, outcome) ==
    /\ pc[p] = "defaultDeleteUser_probe"
    /\ HonorsQuery(p, outcome)
    /\ IF ~getConnectionOk \/ outcome \in {"error", "norows"}
       THEN /\ Returns(p, "probe", "")
            /\ Logged(p, Ev("probe", NoQuery, outcome))
            /\ Goto(p, "unlock")
            /\ UNCHANGED loc
       ELSE /\ loc' = [loc EXCEPT ![p].isCluster = isClusterExist(outcome)]
            /\ Logged(p, Ev("probe", NoQuery, Answer(outcome, isClusterExist(outcome))))
            /\ Goto(p, "defaultDeleteUser_drop")
            /\ UNCHANGED resp
    /\ UNCHANGED <<dbVars, plugVars, req>>

defaultDeleteUserProbe(p, outcome) ==
    /\ pc[p] = "defaultDeleteUser_probe"
    /\ HonorsQuery(p, outcome)
    /\ IF ~getConnectionOk \/ outcome = "error"
       THEN /\ Returns(p, "probe", "")
            /\ Logged(p, Ev("probe", NoQuery, "error"))
            /\ Goto(p, "unlock")
            /\ UNCHANGED loc
       ELSE /\ loc' = [loc EXCEPT ![p].isCluster = isClusterExist(outcome)]
            /\ Logged(p, Ev("probe", NoQuery, Answer(outcome, isClusterExist(outcome))))
            /\ Goto(p, "defaultDeleteUser_drop")
            /\ UNCHANGED resp
    /\ UNCHANGED <<dbVars, plugVars, req>>

\* faulty variant: the cluster clause is never appended
DropStatementNoCluster(username, isCluster) ==
    [toks |-> <<"DROPIE", " ", ";">>, user |-> username, pw |-> ""]

\* fmt.Sprintf("DROP USER IF EXISTS \"%s\" %s;", username, reqCluster)
DropStatement(username, isCluster) ==
    [toks |-> <<"DROPIE", " ">> \o (IF isCluster THEN onCluster ELSE <<>>) \o <<";">>,
     user |-> username, pw |-> ""]

\* db.ExecContext of the DROP, outside any transaction; on success the
\* deferred db.Close() closes the producer's handle as the function returns
defaultDeleteUserDrop(p, delivered) ==
    /\ pc[p] = "defaultDeleteUser_drop"
    /\ Honors(p, delivered)
    /\ LET q == DropStatement(loc[p].username, loc[p].isCluster)
           out == ExecOutcome(users, q, cluster, delivered)
       IN  IF out.ok
           THEN /\ users' = out.view
                /\ Logged(p, Ev("execdb", q, "ok"))
                /\ Returns(p, NoErr, "")
                /\ handle' = "closed"
                /\ loc' = [loc EXCEPT ![p].closeDb = TRUE]
           ELSE /\ Logged(p, Ev("execdb", q, "error"))
                /\ Returns(p, "drop", "")
                /\ UNCHANGED <<users, handle, loc>>
    /\ Goto(p, "unlock")
    /\ UNCHANGED <<cluster, Initialized, Password, usernameProducer, mutex, req>>

\* ------------------------------------------------------------ environment
\* the topology of the target changes between two round-trips
TopologyChange ==
    /\ cluster' = ~cluster
    /\ UNCHANGED <<users, plugVars, procVars>>

\* --------------------------------------------------------- specification
Next ==
    \/ \E p \in Procs, r \in InitializeRequests, ok \in BOOLEAN : Initialize(p, r, ok)
    \/ \E p \in Procs : InitializeTemplate(p)
    \/ \E p \in Procs, r \in NewUserRequests : NewUser(p, r)
    \/ \E p \in Procs : NewUserLock(p)
    \/ \E p \in Procs : NewUserGenerate(p)
    \/ \E p \in Procs : NewUserConnection(p)
    \/ \E p \in Procs, ok \in BOOLEAN : NewUserBeginTx(p, ok)
    \/ \E p \in Procs, ok \in BOOLEAN : NewUserExec(p, ok)
    \/ \E p \in Procs, ok \in BOOLEAN : NewUserCommit(p, ok)
    \/ \E p \in Procs, r \in UpdateUserRequests : UpdateUser(p, r)
    \/ \E p \in Procs : changeUserPasswordLock(p)
    \/ \E p \in Procs : changeUserPasswordConnection(p)
    \/ \E p \in Procs, o \in QueryOutcomes : changeUserPasswordProbe(p, o)
    \/ \E p \in Procs, o \in QueryOutcomes : changeUserPasswordExists(p, o)
    \/ \E p \in Procs, ok \in BOOLEAN : changeUserPasswordBeginTx(p, ok)
    \/ \E p \in Procs, ok \in BOOLEAN : changeUserPasswordExec(p, ok)
    \/ \E p \in Procs, ok \in BOOLEAN : changeUserPasswordCommit(p, ok)
    \/ \E p \in Procs, r \in DeleteUserRequests : DeleteUser(p, r)
    \/ \E p \in Procs : DeleteUserLock(p)
    \/ \E p \in Procs : customDeleteUserConnection(p)
    \/ \E p \in Procs, ok \in BOOLEAN : customDeleteUserBeginTx(p, ok)
    \/ \E p \in Procs, ok \in BOOLEAN : customDeleteUserExec(p, ok)
    \/ \E p \in Procs, ok \in BOOLEAN : customDeleteUserCommit(p, ok)
    \/ \E p \in Procs : defaultDeleteUserConnection(p)
    \/ \E p \in Procs, o \in QueryOutcomes : defaultDeleteUserExists(p, o)
    \/ \E p \in Procs, o \in QueryOutcomes : defaultDeleteUserProbe(p, o)
    \/ \E p \in Procs, ok \in BOOLEAN : defaultDeleteUserDrop(p, ok)
    \/ \E p \in Procs : Rollback(p)
    \/ \E p \in Procs : Unlock(p)
    \/ \E p \in Procs : Return(p)
    \/ TopologyChange

Spec == Init /\ [][Next]_vars

\* -------------------------------------- two deletions of the same account
\* a configured plugin and a database in which every account exists
InitTwoDeletes ==
    /\ users = [n \in Names |-> "p1"]
    /\ cluster \in BOOLEAN
    /\ Initialized = TRUE
    /\ Password = ""
    /\ handle = "open"
    /\ usernameProducer = defaultUserNameTemplate
    /\ mutex = 0
    /\ pc = [p \in Procs |-> "idle"]
    /\ req = [p \in Procs |-> NoReq]
    /\ loc = [p \in Procs |-> NoLoc]
    /\ log = [p \in Procs |-> <<>>]
    /\ resp = [p \in Procs |-> NoResp]

\* defer c.Unlock() of a call whose caller has not taken the response yet:
\* the mutex is free, the return values and what the call did are still there
UnlockAwaited(p) ==
    /\ pc[p] = "unlock"
    /\ mutex = p
    /\ mutex' = 0
    /\ Goto(p, "return")
    /\ UNCHANGED <<dbVars, Initialized, Password, handle, usernameProducer,
                   req, loc, log, resp>>

\* each caller issues one DeleteUser without statements for the account u1
NextTwoDeletes ==
    \/ \E p \in Procs, r \in DeleteUserRequests :
          r.stmts = <<>> /\ r.username = "u1" /\ DeleteUser(p, r)
    \/ \E p \in Procs : DeleteUserLock(p)
    \/ \E p \in Procs : defaultDeleteUserConnection(p)
    \/ \E p \in Procs, o \in QueryOutcomes : defaultDeleteUserExists(p, o)
    \/ \E p \in Procs, o \in QueryOutcomes : defaultDeleteUserProbe(p, o)
    \/ \E p \in Procs, ok \in BOOLEAN : defaultDeleteUserDrop(p, ok)
    \/ \E p \in Procs : UnlockAwaited(p)
    \/ TopologyChange

SpecTwoDeletes == InitTwoDeletes /\ [][NextTwoDeletes]_vars

\* ------------------------------------------------------------- scheduling
\* c.Lock() of the three lifecycle operations
Acquire(p) == NewUserLock(p) \/ changeUserPasswordLock(p) \/ DeleteUserLock(p)

\* what a call does once it holds the mutex or needs none: every round-trip
\* returns, with whatever outcome, and the goroutine runs on
Proceeds(p) ==
    \/ InitializeTemplate(p)
    \/ NewUserGenerate(p)
    \/ NewUserConnection(p)
    \/ \E ok \in BOOLEAN : NewUserBeginTx(p, ok)
    \/ \E ok \in BOOLEAN : NewUserExec(p, ok)
    \/ \E ok \in BOOLEAN : NewUserCommit(p, ok)
    \/ changeUserPasswordConnection(p)
    \/ \E o \in QueryOutcomes : changeUserPasswordProbe(p, o)
    \/ \E o \in QueryOutcomes : changeUserPasswordExists(p, o)
    \/ \E ok \in BOOLEAN : changeUserPasswordBeginTx(p, ok)
    \/ \E ok \in BOOLEAN : changeUserPasswordExec(p, ok)
    \/ \E ok \in BOOLEAN : changeUserPasswordCommit(p, ok)
    \/ customDeleteUserConnection(p)
    \/ \E ok \in BOOLEAN : customDeleteUserBeginTx(p, ok)
    \/ \E ok \in BOOLEAN : customDeleteUserExec(p, ok)
    \/ \E ok \in BOOLEAN : customDeleteUserCommit(p, ok)
    \/ defaultDeleteUserConnection(p)
    \/ \E o \in QueryOutcomes : defaultDeleteUserExists(p, o)
    \/ \E o \in QueryOutcomes : defaultDeleteUserProbe(p, o)
    \/ \E ok \in BOOLEAN : defaultDeleteUserDrop(p, ok)
    \/ Rollback(p)
    \/ Unlock(p)
    \/ Return(p)

\* a running goroutine is not held back for ever, and sync.Mutex hands the
\* lock to a goroutine that keeps waiting for it (starvation mode)
Fairness == \A p \in Procs : WF_vars(Proceeds(p)) /\ SF_vars(Acquire(p))

\* the calls of the scheduling analysis: one request of each path
FairRequests ==
    { r \in InitializeRequests : r.url # "" /\ r.template = "" /\ ~r.verify }
    \cup { r \in NewUserRequests :
              /\ r.stmts = << <<"CREATE", ";", " ", ";", "GRANT", ";">> >>
              /\ r.password = "p1" }
    \cup { r \in UpdateUserRequests :
              /\ r.stmts \in {<<>>, << <<" ", "ALTER", ";">> >>}
              /\ r.username = "u1" /\ r.password = "p1" /\ ~r.hasExpiration }
    \cup { r \in DeleteUserRequests :
              r.stmts \in {<<>>, << <<" ", "DROP", ";">> >>} /\ r.username = "u1" }

NextFair ==
    \/ \E p \in Procs, r \in FairRequests :
          \/ r.op = "Initialize" /\ Initialize(p, r, TRUE)
          \/ r.op = "NewUser" /\ NewUser(p, r)
          \/ r.op = "UpdateUser" /\ UpdateUser(p, r)
          \/ r.op = "DeleteUser" /\ DeleteUser(p, r)
    \/ \E p \in Procs : Acquire(p)
    \/ \E p \in Procs : Proceeds(p)

SpecFair == Init /\ [][NextFair]_vars /\ Fairness

\* --------------------------------------- a producer that is not initialized
\* The producer's flag is false: the plugin was never initialized, or, as the
\* tests do after Initialize, the exported field was set back to false while
\* the username template stays installed.
InitUninitialized ==
    /\ users = [n \in Names |-> Absent]
    /\ cluster \in BOOLEAN
    /\ Initialized = FALSE
    /\ Password = ""
    /\ handle = "nil"
    /\ usernameProducer \in {"none", defaultUserNameTemplate}
    /\ mutex = 0
    /\ pc = [p \in Procs |-> "idle"]
    /\ req = [p \in Procs |-> NoReq]
    /\ loc = [p \in Procs |-> NoLoc]
    /\ log = [p \in Procs |-> <<>>]
    /\ resp = [p \in Procs |-> NoResp]

SpecUninitialized == InitUninitialized /\ [][Next]_vars

\* ------------------------------------------------- the caller's context
\* The context of a call that holds the mutex and has not yet decided its
\* result is canceled, or its deadline passes; it stays done.
CancelContext(p) ==
    /\ mutex = p
    /\ pc[p] \notin {"rollback", "unlock"}
    /\ loc[p].ctx = "live"
    /\ loc' = [loc EXCEPT ![p].ctx = "done"]
    /\ UNCHANGED <<dbVars, plugVars, pc, req, log, resp>>

NextContext ==
    \/ Next
    \/ \E p \in Procs : CancelContext(p)

SpecContext == Init /\ [][NextContext]_vars

\* ------------------------------------------- one caller, every template
\* The statement loops applied to every template text of at most
\* MaxTemplateLen tokens: one caller initializes the plugin and then creates,
\* rotates and deletes with one-template statement sets, every round-trip
\* being delivered.
Caller == 1

TemplateTokens == {"DROPIE", "BAD", ";", " ", "[", "]"}

LongerTemplates ==
    { <<"CREATE", ";", " ", ";", "GRANT", ";">>,
      <<"b64(DROPIE)", "b64(;)", "b64( )", "b64(DROPIE)">> }

TemplateTexts ==
    UNION {[1..n -> TemplateTokens] : n \in 0..MaxTemplateLen} \cup LongerTemplates

TemplateStatementSets ==
    {<<t>> : t \in TemplateTexts}
        \cup { << <<"DROPIE", ";", "DROPIE">>, <<" ", ";", "DROPIE", ";">> >> }

TemplateRequests(o) ==
    { [NoReq EXCEPT !.op = o, !.stmts = s, !.username = "u1", !.password = "p1",
                    !.hasPassword = TRUE]
        : s \in TemplateStatementSets }

TemplateInitialize ==
    [NoReq EXCEPT !.op = "Initialize", !.url = "clickhouse://"]

NextTemplates ==
    \/ Initialize(Caller, TemplateInitialize, TRUE)
    \/ InitializeTemplate(Caller)
    \/ pc[Caller] = "idle" /\ \E r \in TemplateRequests("NewUser") : NewUser(Caller, r)
    \/ NewUserLock(Caller)
    \/ NewUserGenerate(Caller)
    \/ NewUserConnection(Caller)
    \/ NewUserBeginTx(Caller, TRUE)
    \/ NewUserExec(Caller, TRUE)
    \/ NewUserCommit(Caller, TRUE)
    \/ pc[Caller] = "idle" /\ \E r \in TemplateRequests("UpdateUser") : UpdateUser(Caller, r)
    \/ changeUserPasswordLock(Caller)
    \/ changeUserPasswordConnection(Caller)
    \/ changeUserPasswordExists(Caller, "row")
    \/ changeUserPasswordBeginTx(Caller, TRUE)
    \/ changeUserPasswordExec(Caller, TRUE)
    \/ changeUserPasswordCommit(Caller, TRUE)
    \/ pc[Caller] = "idle" /\ \E r \in TemplateRequests("DeleteUser") : DeleteUser(Caller, r)
    \/ DeleteUserLock(Caller)
    \/ customDeleteUserConnection(Caller)
    \/ customDeleteUserBeginTx(Caller, TRUE)
    \/ customDeleteUserExec(Caller, TRUE)
    \/ customDeleteUserCommit(Caller, TRUE)
    \/ Rollback(Caller)
    \/ Unlock(Caller)
    \/ Return(Caller)

SpecTemplates == Init /\ [][NextTemplates]_vars

\* ------------------------------------------ the error sanitizer of New()
\* New() returns the plugin wrapped in dbplugin's error sanitizer middleware:
\* every method of the wrapper calls the plugin's method and passes its error
\* through sanitize, which reads secretValues() at that moment, without the
\* mutex.  An error text is a sequence of tokens; a token is a word of the
\* message, a secret, or the mark of a url.Error in the error chain.
AdminPasswords == {"s" \o ToString(i) : i \in 1..NumSecrets}

ErrorTokens == {"msg", "url.Error"} \cup AdminPasswords

ErrorTexts == UNION {[1..n -> ErrorTokens] : n \in 1..MaxTextLen}

WrappedMethods == {"NewUser", "UpdateUser", "DeleteUser"}

SanitizerInitializeRequests ==
    { [NoReq EXCEPT !.op = "Initialize", !.url = c, !.verify = TRUE, !.password = s]
        : c \in {"", "clickhouse://"}, s \in AdminPasswords \cup {""} }

\* faulty variant: the secret to hide is the connection URL
secretValuesOfUrl == [k \in {"clickhouse://"} |-> "[password]"]

\* secretValues(): c.Password is to be replaced by "[password]"
secretValues == [k \in {Password} |-> "[password]"]

\* strings.ReplaceAll on the tokens of a text
ReplaceAll(text, find, replace) ==
    [i \in 1..Len(text) |-> IF text[i] = find THEN replace ELSE text[i]]

\* the middleware's sanitize with a map of one secret: a url.Error gives a
\* fixed text; an empty secret is skipped
sanitize(text, secrets) ==
    IF \E i \in 1..Len(text) : text[i] = "url.Error"
    THEN <<"unable to parse connection url">>
    ELSE LET find == CHOOSE k \in DOMAIN secrets : TRUE
         IN  IF find = "" THEN text ELSE ReplaceAll(text, find, secrets[find])

\* a method of the wrapped plugin returned an error with this text
WrappedMethodFails(p, m, text) ==
    /\ pc[p] = "idle"
    /\ req' = [req EXCEPT ![p] = [NoReq EXCEPT !.op = m]]
    /\ ReturnsText(p, "error", "", text)
    /\ Goto(p, "return")
    /\ UNCHANGED <<dbVars, plugVars, loc, log>>

\* the wrapper's method: return ..., mw.sanitize(err)
MiddlewareSanitize(p) ==
    /\ pc[p] = "return"
    /\ resp' = [resp EXCEPT ![p].text = sanitize(@, secretValues)]
    /\ Goto(p, "sanitized")
    /\ UNCHANGED <<dbVars, plugVars, req, loc, log>>

\* the host takes the response of the wrapper
HostTakes(p) ==
    /\ pc[p] = "sanitized"
    /\ Goto(p, "idle")
    /\ req' = [req EXCEPT ![p] = NoReq]
    /\ resp' = [resp EXCEPT ![p] = NoResp]
    /\ UNCHANGED <<dbVars, plugVars, loc, log>>

NextSanitizer ==
    \/ \E p \in Procs, r \in SanitizerInitializeRequests, ok \in BOOLEAN :
          Initialize(p, r, ok)
    \/ \E p \in Procs : InitializeTemplate(p)
    \/ \E p \in Procs, m \in WrappedMethods, t \in ErrorTexts :
          WrappedMethodFails(p, m, t)
    \/ \E p \in Procs : MiddlewareSanitize(p)
    \/ \E p \in Procs : HostTakes(p)

SpecSanitizer == Init /\ [][NextSanitizer]_vars

\* ====================================================================
\* Properties
\* ====================================================================
\* positions between the acquisition of the connection and the end of the
\* commit or rollback of a lifecycle call
RoundTripLabels ==
    {"NewUser_connection", "NewUser_begin", "NewUser_exec", "NewUser_commit",
     "changeUserPassword_connection", "changeUserPassword_probe",
     "changeUserPassword_exists", "changeUserPassword_begin",
     "changeUserPassword_exec", "changeUserPassword_commit",
     "customDeleteUser_connection", "customDeleteUser_begin",
     "customDeleteUser_exec", "customDeleteUser_commit",
     "defaultDeleteUser_connection", "defaultDeleteUser_exists",
     "defaultDeleteUser_probe", "defaultDeleteUser_drop", "rollback"}

InRoundTrips(p) == pc[p] \in RoundTripLabels

Events(p, kind) == SelectSeq(log[p], LAMBDA e : e.ev = kind)
LastEvent(p) == log[p][Len(log[p])]
Failed(p) == resp[p].err \notin {Pending, NoErr}

\* C1: at most one lifecycle call is between acquiring its connection and the
\* end of its commit or rollback, and a step that adds a round-trip to one
\* call's history is never taken while another call is in that region.
C1_OneLifecycleOperationAtATime ==
    /\ \A p, q \in Procs : (p # q /\ InRoundTrips(p)) => ~InRoundTrips(q)
    /\ \A p \in Procs : log[p] # <<>> => mutex = p

C1_Witness ==
    \E p, q \in Procs :
        /\ pc[p] = "NewUser_exec" /\ Len(Events(p, "exec")) = 1
        /\ pc[q] = "DeleteUser_lock"

\* C2: the account table changes only in the step that decides the success of
\* a lifecycle call, and then (the call's statements acting on its account, and
\* the existence check of a default delete answering with a row) as the call
\* says: a successful Create leaves the account present with the password of
\* the request, a successful Rotate leaves it present with the new password
\* and the old one no longer valid, a successful Delete leaves it absent.
\* Hence the account exists exactly when the last successful Create/Delete was
\* a Create, with the password of the most recent successful Create or Rotate.
Succeeds(p) == resp[p].err = Pending /\ resp'[p].err = NoErr

C2_Effect(p) ==
    CASE req'[p].op = "NewUser" ->
           /\ users[loc[p].username] = Absent
           /\ users' = [users EXCEPT ![loc[p].username] = req'[p].password]
      [] req'[p].op = "UpdateUser" /\ req'[p].hasPassword ->
           /\ users[req'[p].username] # Absent
           /\ users' = [users EXCEPT ![req'[p].username] = req'[p].password]
      [] req'[p].op = "DeleteUser" ->
           \/ LastEvent(p)' = Ev("exists", NoQuery, "norows")
           \/ users' = [users EXCEPT ![req'[p].username] = Absent]
      [] OTHER -> users' = users

C2_Step ==
    /\ (\A p \in Procs : ~Succeeds(p)) => users' = users
    /\ \A p \in Procs :
          (Succeeds(p) /\ ActsOnAccount(req'[p])) => C2_Effect(p)

C2_AccountFollowsLastSuccessfulOperation == [][C2_Step]_vars

\* a Rotate committed on an account created earlier with another password
C2_Witness ==
    \E p \in Procs :
        /\ req[p].op = "UpdateUser" /\ resp[p].err = NoErr
        /\ loc[p].tx = "committed"
        /\ loc[p].snap[req[p].username] \in Passwords \ {req[p].password}
        /\ users[req[p].username] = req[p].password

HasEvent(p, kind, answers) ==
    \E i \in 1..Len(log[p]) : log[p][i].ev = kind /\ log[p][i].r \in answers

Answers(p, kind) == LET es == Events(p, kind) IN [i \in 1..Len(es) |-> es[i].r]

\* C3: once a statement fragment of a NewUser call failed, the call returns an
\* error and no username, its transaction is never committed and is rolled
\* back before the mutex is released, and the account table is what it was
\* when the call began: no earlier fragment stays applied, the account is not
\* created.
C3_NewUserFailureLeavesNothingApplied ==
    \A p \in Procs :
        (req[p].op = "NewUser" /\ HasEvent(p, "exec", {"error"})) =>
            /\ Failed(p) /\ resp[p].username = ""
            /\ Events(p, "commit") = <<>>
            /\ users = loc[p].snap
            /\ pc[p] \in {"rollback", "unlock"}
            /\ pc[p] = "unlock" => loc[p].tx = "rolledback"

C3_Witness ==
    \E p \in Procs :
        /\ req[p].op = "NewUser" /\ pc[p] = "unlock"
        /\ Answers(p, "exec") = <<"ok", "error">>
        /\ loc[p].tx = "rolledback"
        /\ users[loc[p].username] = Absent

\* C4: an UpdateUser call that returns an error leaves the password as it was:
\* refused by the request checks it sent nothing and opened nothing; failing
\* under the mutex it committed nothing and the account table is what it was
\* when the call took the mutex.
C4_UpdateUserErrorKeepsPassword ==
    \A p \in Procs :
        (req[p].op = "UpdateUser" /\ Failed(p)) =>
            IF mutex = p
            THEN /\ users = loc[p].snap
                 /\ ~HasEvent(p, "commit", {"ok"})
                 /\ pc[p] = "unlock" => loc[p].tx \in {"none", "rolledback", "failed"}
            ELSE pc[p] = "return" /\ log[p] = <<>> /\ loc[p] = NoLoc

C4_Witness ==
    \E p \in Procs :
        /\ req[p].op = "UpdateUser" /\ pc[p] = "unlock" /\ Failed(p)
        /\ Answers(p, "exec") = <<"ok", "error">>
        /\ loc[p].snap[req[p].username] \in Passwords \ {req[p].password}
        /\ users[req[p].username] = loc[p].snap[req[p].username]

\* C5: a DeleteUser call with revocation statements one fragment of which
\* failed returns an error, commits nothing, rolls back, and leaves the account
\* as it was before the call.
C5_CustomDeleteFailureKeepsAccount ==
    \A p \in Procs :
        (req[p].op = "DeleteUser" /\ req[p].stmts # <<>>
            /\ HasEvent(p, "exec", {"error"})) =>
            /\ Failed(p)
            /\ Events(p, "commit") = <<>>
            /\ users = loc[p].snap
            /\ pc[p] \in {"rollback", "unlock"}
            /\ pc[p] = "unlock" => loc[p].tx = "rolledback"

C5_Witness ==
    \E p \in Procs :
        /\ req[p].op = "DeleteUser" /\ pc[p] = "unlock"
        /\ Answers(p, "exec") = <<"ok", "error">>
        /\ users[req[p].username] \in Passwords
        /\ users = loc[p].snap

\* C6: a NewUser call with no creation statement returns an error and no
\* username whatever its other inputs, and has generated no username, taken no
\* mutex, acquired no connection, opened no transaction and sent no statement.
C6_EmptyCreationStatementsRefused ==
    \A p \in Procs :
        (req[p].op = "NewUser" /\ Len(req[p].stmts) = 0) =>
            /\ pc[p] = "return"
            /\ Failed(p) /\ resp[p].username = ""
            /\ log[p] = <<>> /\ loc[p] = NoLoc
            /\ mutex # p

C6_Witness ==
    \E p, q \in Procs :
        /\ req[p].op = "NewUser" /\ Len(req[p].stmts) = 0 /\ pc[p] = "return"
        /\ Initialized /\ CanGenerate(usernameProducer) /\ mutex = q /\ q # p

\* C7 as stated: UpdateUser returns an error and sends nothing for every
\* request with an empty username, or without a new password, or with an empty
\* new password.
C7_Original ==
    \A p \in Procs :
        (req[p].op = "UpdateUser"
            /\ (req[p].username = "" \/ ~req[p].hasPassword \/ req[p].password = "")) =>
            pc[p] = "return" /\ Failed(p) /\ log[p] = <<>>

\* C7 amended: UpdateUser returns an error and sends nothing for every request
\* with an empty username, or with neither a new password nor an expiration,
\* or with a new password that is the empty string; a request with a username
\* and an expiration but no password returns success and sends nothing.
C7_UpdateUserValidation ==
    \A p \in Procs :
        req[p].op = "UpdateUser" =>
            /\ (\/ req[p].username = ""
                \/ ~req[p].hasPassword /\ ~req[p].hasExpiration
                \/ req[p].hasPassword /\ req[p].password = "") =>
                   pc[p] = "return" /\ Failed(p) /\ log[p] = <<>> /\ loc[p] = NoLoc
            /\ (req[p].username # "" /\ ~req[p].hasPassword /\ req[p].hasExpiration) =>
                   pc[p] = "return" /\ resp[p].err = NoErr /\ log[p] = <<>>
                        /\ loc[p] = NoLoc

C7_Witness ==
    \E p \in Procs :
        /\ req[p].op = "UpdateUser" /\ pc[p] = "return" /\ Failed(p)
        /\ req[p].username # "" /\ req[p].hasPassword /\ req[p].password = ""
        /\ req[p].stmts # <<>> /\ req[p].hasExpiration

\* C8 as stated: UpdateUser with no rotation statement executes exactly one
\* fragment, the default password change, and that fragment carries the
\* cluster clause exactly when the probe of the call answered true.
C8_Original ==
    \A p \in Procs :
        (req[p].op = "UpdateUser" /\ req[p].stmts = <<>>) =>
            LET es == Events(p, "exec")
            IN  /\ Len(es) <= 1
                /\ HasEvent(p, "commit", {"ok", "error"}) => Len(es) = 1
                /\ \A i \in 1..Len(es) :
                      /\ StripTail(es[i].q.toks)[1] = "ALTER"
                      /\ HasClusterClause(es[i].q.toks) <=> loc[p].isCluster

C10_DefaultDeleteDropsOnce ==
    \A p \in Procs :
        (req[p].op = "DeleteUser" /\ req[p].stmts = <<>> /\ pc[p] = "unlock"
            /\ HasEvent(p, "exists", {"true"})
            /\ HasEvent(p, "probe", {"true", "false", "norows"})) =>
            LET d == Events(p, "execdb")
            IN  /\ Len(d) = 1
                /\ WellFormed(d[1].q.toks)
                /\ StripTail(d[1].q.toks)[1] = "DROPIE"
                /\ d[1].q.user = req[p].username
                /\ HasClusterClause(d[1].q.toks) <=> Answers(p, "probe") = <<"true">>
                /\ Events(p, "begin") = <<>> /\ Events(p, "exec") = <<>>
                /\ loc[p].tx = "none"
                /\ d[1].r = "error" => Failed(p) /\ users = loc[p].snap
                /\ d[1].r = "ok" =>
                      resp[p].err = NoErr /\ users[req[p].username] = Absent

C10_Witness ==
    \E p \in Procs :
        /\ req[p].op = "DeleteUser" /\ req[p].stmts = <<>> /\ pc[p] = "unlock"
        /\ Answers(p, "probe") = <<"true">>
        /\ Answers(p, "execdb") = <<"ok">>
        /\ loc[p].snap[req[p].username] \in Passwords
        /\ users[req[p].username] = Absent

\* ---- the pieces of a template, by the positions of its delimiters
Trimmed(s) ==
    LET ns == {i \in 1..Len(s) : s[i] # " "}
    IN  IF ns = {} THEN <<>>
        ELSE SubSeq(s, CHOOSE i \in ns : \A j \in ns : i <= j,
                       CHOOSE i \in ns : \A j \in ns : i >= j)

NextDelimiter(s, i) ==
    CHOOSE j \in (i + 1)..(Len(s) + 1) :
        /\ j = Len(s) + 1 \/ s[j] = ";"
        /\ \A k \in (i + 1)..(j - 1) : s[k] # ";"

RECURSIVE PiecesFrom(_, _)
PiecesFrom(s, i) ==
    LET j == NextDelimiter(s, i)
        piece == Trimmed(SubSeq(s, i + 1, j - 1))
        rest == IF j > Len(s) THEN <<>> ELSE PiecesFrom(s, j)
    IN  IF piece = <<>> THEN rest ELSE <<piece>> \o rest

Pieces(s) == PiecesFrom(s, 0)

\* what a template stands for: SQL text, or the encoding of a text or of a list
PlainText(t) == ~IsJsonArray(t) /\ (Trimmed(t) = <<>> \/ ~IsBase64(Trimmed(t)))

Decoded(t) ==
    IF Trimmed(t) # <<>> /\ IsBase64(Trimmed(t))
    THEN Base64Decode(Trimmed(t)) ELSE t

FragmentsOfTemplate(t) ==
    IF IsJsonArray(Decoded(t))
    THEN LET d == Trimmed(Decoded(t))
             str == Trimmed(SubSeq(d, 2, Len(d) - 1))
         IN  IF str = <<>> THEN <<>> ELSE <<str>>
    ELSE Pieces(Decoded(t))

RECURSIVE Concat(_, _)
Concat(F(_), ts) ==
    IF ts = <<>> THEN <<>> ELSE F(Head(ts)) \o Concat(F, Tail(ts))

\* the statement templates of a call and its fragments: those executed and
\* those still to execute, without the ";" that NewUser puts back on each
TemplatesOf(p) == IF req[p].op = "NewUser" THEN req[p].stmts ELSE loc[p].stmts

Executed(p) ==
    LET es == SelectSeq(log[p], LAMBDA e : e.ev = "exec" /\ e.r = "ok")
    IN  [i \in 1..Len(es) |-> es[i].q.toks]

Fragments(p) ==
    LET fs == Executed(p) \o loc[p].queries
    IN  [i \in 1..Len(fs) |->
            IF req[p].op = "NewUser" THEN SubSeq(fs[i], 1, Len(fs[i]) - 1)
            ELSE fs[i]]

\* C11 as stated: for every statement template of a call that opened its
\* transaction, the fragments executed are exactly the pieces between the ";"
\* of the templates that are not empty once trimmed, in their order.
C11_Original ==
    \A p \in Procs :
        loc[p].tx # "none" => Fragments(p) = Concat(Pieces, TemplatesOf(p))

\* C11 amended: the fragments of a call are never empty and carry no
\* surrounding whitespace; for templates that are SQL text they are exactly
\* the non-empty trimmed pieces between the ";", in their order; a template
\* that is a JSON array gives its non-blank strings, not split on ";", and a
\* base64 template is read as the text it encodes.
C11_FragmentsAreNonEmptyPieces ==
    \A p \in Procs :
        loc[p].tx # "none" =>
            /\ \A i \in 1..Len(Fragments(p)) :
                  Fragments(p)[i] # <<>> /\ Trimmed(Fragments(p)[i]) = Fragments(p)[i]
            /\ \A e \in {log[p][i] : i \in 1..Len(log[p])} :
                  e.ev = "exec" => Trimmed(e.q.toks) # <<>>
            /\ (\A k \in 1..Len(TemplatesOf(p)) : PlainText(TemplatesOf(p)[k])) =>
                  Fragments(p) = Concat(Pieces, TemplatesOf(p))
            /\ Fragments(p) = Concat(FragmentsOfTemplate, TemplatesOf(p))

\* the template "A; ;B;": its two fragments executed, in a committed transaction
C11_Witness ==
    \E p \in Procs :
        /\ req[p].stmts = << <<"CREATE", ";", " ", ";", "GRANT", ";">> >>
        /\ loc[p].tx = "committed"
        /\ Executed(p) = << <<"CREATE", ";">>, <<"GRANT", ";">> >>

\* C12: the error text that leaves the wrapper returned by New() contains no
\* occurrence of the administrative password the producer is configured with:
\* every occurrence in the plugin's error is replaced by "[password]" and the
\* rest of the text is kept, or the whole text is replaced by a fixed one,
\* whichever method returned the error.
C12_Step ==
    \A p \in Procs :
        (pc[p] = "return" /\ pc'[p] = "sanitized") =>
            /\ Password' = Password
            /\ Password # "" =>
                  /\ \A i \in 1..Len(resp'[p].text) : resp'[p].text[i] # Password
                  /\ \/ resp'[p].text = <<"unable to parse connection url">>
                     \/ /\ Len(resp'[p].text) = Len(resp[p].text)
                        /\ \A i \in 1..Len(resp[p].text) :
                              resp'[p].text[i] =
                                 IF resp[p].text[i] = Password THEN "[password]"
                                 ELSE resp[p].text[i]

C12_NoAdministrativePasswordInErrors == [][C12_Step]_vars

\* an error that named the password twice has left NewUser with both redacted
C12_Witness ==
    \E p \in Procs :
        /\ pc[p] = "sanitized" /\ req[p].op = "NewUser"
        /\ Password \in AdminPasswords
        /\ resp[p].text = <<"[password]", "[password]">>

\* C13: the response of NewUser carries the generated username exactly when
\* the call's transaction was committed, and then the call returns no error;
\* on every error return (no creation statement, username generation,
\* connection, begin, fragment, commit) the username of the response is empty.
C13_UsernameIffCommitted ==
    \A p \in Procs :
        req[p].op = "NewUser" =>
            /\ resp[p].username # "" <=> HasEvent(p, "commit", {"ok"})
            /\ HasEvent(p, "commit", {"ok"}) =>
                  /\ resp[p].err = NoErr /\ loc[p].tx = "committed"
                  /\ resp[p].username = loc[p].username
                  /\ HasEvent(p, "generate", {"ok"})
            /\ Failed(p) => resp[p].username = ""
            /\ resp[p].err = NoErr => HasEvent(p, "commit", {"ok"})

\* every fragment executed, Commit failed: an error and no username
C13_Witness ==
    \E p \in Procs :
        /\ req[p].op = "NewUser" /\ pc[p] = "unlock"
        /\ Answers(p, "exec") = <<"ok", "ok">>
        /\ Answers(p, "commit") = <<"error">>
        /\ loc[p].username \in Names
        /\ Failed(p) /\ resp[p].username = ""

\* C14: while the producer is not initialized getConnection gives an error,
\* and a NewUser, UpdateUser (with a password change) or DeleteUser call, on
\* the default and on the custom path, has acquired no connection, made no
\* query, begun no transaction and sent no statement; it returns an error,
\* and it holds the mutex until the step that returns and not after it.
C14_UninitializedProducerRefusesCalls ==
    \A p \in Procs :
        (~Initialized /\ req[p].op \in {"NewUser", "UpdateUser", "DeleteUser"}) =>
            /\ \A i \in 1..Len(log[p]) : log[p][i].ev = "generate"
            /\ loc[p].tx = "none" /\ loc[p].queries = <<>>
            /\ users = [n \in Names |-> Absent]
            /\ (pc[p] \in {"unlock", "return"}
                  /\ (req[p].op = "UpdateUser" => req[p].hasPassword)) => Failed(p)
            /\ pc[p] = "unlock" => mutex = p
            /\ pc[p] \in {"idle", "return"} => mutex # p

\* the flag is false and the template installed: NewUser generated a username,
\* got no connection, and is about to release the mutex and return the error
C14_Witness ==
    \E p, q \in Procs :
        /\ ~Initialized /\ req[p].op = "NewUser" /\ pc[p] = "unlock"
        /\ Answers(p, "generate") = <<"ok">>
        /\ resp[p].err = "unable to get connection"
        /\ req[q].op = "DeleteUser" /\ pc[q] = "DeleteUser_lock"

\* C15: an Initialize call whose username_template is not a string, does not
\* compile, or cannot generate a username from empty metadata returns an
\* error; a call without username_template (absent or empty) installs the
\* built-in default template and succeeds whenever the producer accepted the
\* connection configuration, and only then.
C15_Step ==
    \A p \in Procs :
        /\ (pc[p] = "idle" /\ req'[p].op = "Initialize") =>
              \/ pc'[p] = "Initialize_template" /\ resp'[p].err = Pending
              \/ pc'[p] = "return" /\ resp'[p].err \notin {Pending, NoErr}
        /\ (pc[p] = "Initialize_template" /\ pc'[p] # pc[p]) =>
              /\ pc'[p] = "return"
              /\ req[p].template \in {"nonstring", "badsyntax", "badgenerate"} =>
                    resp'[p].err \notin {Pending, NoErr}
              /\ req[p].template = "" =>
                    /\ resp'[p].err = NoErr
                    /\ usernameProducer' = defaultUserNameTemplate
                    /\ CanGenerate(usernameProducer')

C15_InitializeChecksUsernameTemplate == [][C15_Step]_vars

\* a template that compiles but cannot generate: refused, after it was installed
C15_Witness ==
    \E p \in Procs :
        /\ req[p].op = "Initialize" /\ req[p].template = "badgenerate"
        /\ pc[p] = "return" /\ resp[p].err = "invalid username template"
        /\ Initialized

\* C16: a lifecycle call whose context is done at one of its round-trips
\* (connection, probe, existence check, begin, fragment, commit, DROP) makes
\* no successful round-trip with that context afterwards and returns an
\* error; a transaction it had begun is not committed and is rolled back
\* before the mutex is released, nothing of the call is applied, and the step
\* that returns releases the mutex.
C16_Done(p) ==
    (loc[p].ctx = "done" /\ pc[p] \in {"rollback", "unlock"}) =>
        /\ Failed(p)
        /\ ~HasEvent(p, "commit", {"ok"})
        /\ loc[p].tx \in {"none", "open", "failed", "rolledback"}
        /\ pc[p] = "unlock" => loc[p].tx \in {"none", "failed", "rolledback"}
        /\ users = loc[p].snap
        /\ mutex = p

C16_Step ==
    \A p \in Procs :
        /\ C16_Done(p)'
        /\ (loc[p].ctx = "done" /\ pc'[p] # pc[p]) =>
              /\ Len(log'[p]) > Len(log[p]) =>
                    LastEvent(p)'.r \in {"error", "ok"}
                       /\ (LastEvent(p)'.r = "ok" =>
                              LastEvent(p)'.ev \in {"generate", "connection", "rollback"})
              /\ pc[p] = "unlock" => mutex' = 0 /\ pc'[p] = "idle"

C16_DoneContextAbortsTheCall == [][C16_Step]_vars

\* the context ended after the first fragment: the second was not executed,
\* the transaction was rolled back, the call returns the error
C16_Witness ==
    \E p \in Procs :
        /\ loc[p].ctx = "done" /\ pc[p] = "unlock" /\ req[p].op = "NewUser"
        /\ Answers(p, "exec") = <<"ok", "error">>
        /\ loc[p].tx = "rolledback" /\ Failed(p)
        /\ loc[p].queries = << <<"GRANT", ";">> >>

\* C17: in NewUser, UpdateUser and DeleteUser with revocation statements the
\* statements sent are, in order and each once, the first fragments of the
\* call's statement set taken statement by statement and, inside a statement,
\* from left to right; the transaction is begun once and committed at most
\* once, after every fragment was sent; a failing begin, fragment or commit is
\* the last round-trip of the call: nothing is sent after it, nothing is tried
\* again.
RoundTrips(p) == SelectSeq(log[p], LAMBDA e : e.ev \in {"begin", "exec", "commit"})

Sent(p) ==
    LET es == Events(p, "exec")
    IN  [i \in 1..Len(es) |->
            IF req[p].op = "NewUser"
            THEN SubSeq(es[i].q.toks, 1, Len(es[i].q.toks) - 1)
            ELSE es[i].q.toks]

C17_InOrderOnceNoRetry ==
    \A p \in Procs :
        LET all == Concat(FragmentsOfTemplate, TemplatesOf(p))
            rt == RoundTrips(p)
        IN  /\ Len(Events(p, "begin")) <= 1 /\ Len(Events(p, "commit")) <= 1
            /\ rt # <<>> => rt[1].ev = "begin" /\ loc[p].tx # "none"
            /\ loc[p].tx # "none" =>
                  /\ Len(Sent(p)) <= Len(all)
                  /\ Sent(p) = SubSeq(all, 1, Len(Sent(p)))
            /\ \A i \in 1..Len(rt) :
                  /\ rt[i].r = "error" => i = Len(rt)
                  /\ rt[i].ev = "commit" => i = Len(rt) /\ Len(Sent(p)) = Len(all)
            /\ (Failed(p) /\ loc[p].tx = "none") => Events(p, "exec") = <<>>
            /\ (rt # <<>> /\ rt[Len(rt)].r = "error") =>
                  Failed(p) /\ pc[p] \in {"rollback", "unlock"}

\* two creation statements: the first sent and accepted, the second sent and
\* refused, and the call is over
C17_Witness ==
    \E p \in Procs :
        /\ req[p].op = "NewUser" /\ pc[p] = "unlock"
        /\ req[p].stmts = << <<"CREATE", ";">>, <<"BAD", ";">> >>
        /\ Sent(p) = << <<"CREATE">>, <<"BAD">> >>
        /\ Answers(p, "exec") = <<"ok", "error">>
        /\ Events(p, "commit") = <<>>

\* C18 as stated: a fragment that carries {{password}} is never sent while the
\* operation binds no password (DeleteUser with revocation statements binds
\* only name and username), and a call with such a fragment never succeeds.
Unbound(q) == UsesPassword(q.toks) /\ q.pw = UnboundPassword

C18_Original ==
    \A p \in Procs :
        /\ \A i \in 1..Len(log[p]) :
              log[p][i].ev = "exec" => ~Unbound(log[p][i].q)
        /\ (req[p].op = "DeleteUser" /\ pc[p] = "unlock" /\ loc[p].tx # "none"
               /\ \E i \in 1..Len(Fragments(p)) : UsesPassword(Fragments(p)[i]))
              => Failed(p)

\* C19: once the existence pre-check of an UpdateUser call was answered
\* (account present, account absent, or no rows) the call goes on to BeginTx
\* and, unless BeginTx itself fails, opens its transaction; the statements it
\* runs are the request's rotation statements or, without any, the default
\* statement chosen by the probe's answer, and the fragments it runs are the
\* fragments of these statements: neither depends on the pre-check's answer.
PreCheckAnswers == {"true", "false", "norows"}

C19_PreCheckNeverGates ==
    \A p \in Procs : \A a \in PreCheckAnswers :
        (req[p].op = "UpdateUser" /\ Answers(p, "exists") = <<a>>) =>
            /\ loc[p].stmts = IF req[p].stmts = <<>>
                              THEN <<DefaultChangePassword(loc[p].isCluster)>>
                              ELSE req[p].stmts
            /\ loc[p].tx = "none" =>
                  \/ pc[p] = "changeUserPassword_begin" /\ ~Failed(p)
                  \/ pc[p] = "unlock" /\ resp[p].err = "unable to start transaction"
            /\ loc[p].tx # "none" =>
                  /\ Answers(p, "begin") = <<"ok">>
                  /\ Fragments(p) = Concat(FragmentsOfTemplate, loc[p].stmts)
                  /\ \A i \in 1..Len(Events(p, "exec")) :
                        Events(p, "exec")[i].q =
                            [toks |-> Fragments(p)[i], user |-> req[p].username,
                             pw |-> req[p].password]

\* the pre-check found no account, the transaction was opened all the same and
\* the rotation statement was sent (and refused by the server)
C19_Witness ==
    \E p \in Procs :
        /\ req[p].op = "UpdateUser" /\ pc[p] = "unlock"
        /\ Answers(p, "exists") = <<"false">>
        /\ Answers(p, "begin") = <<"ok">>
        /\ Answers(p, "exec") = <<"error">>
        /\ Sent(p) = <<<<"ALTER">>>>

\* the pre-check returned no rows for an account that is there: the rotation
\* is committed
C19_WitnessNoRows ==
    \E p \in Procs :
        /\ req[p].op = "UpdateUser" /\ pc[p] = "unlock" /\ ~Failed(p)
        /\ Answers(p, "exists") = <<"norows">>
        /\ Answers(p, "commit") = <<"ok">>

\* C20: a cluster probe or an existence check that returns no rows is taken
\* as the answer false and does not fail the call, which goes on as it does
\* after the answer false (the rotation to its existence check and then to
\* BeginTx, the default deletion to its return without DROP after the
\* existence check and to the DROP without cluster clause after the probe);
\* any other error of either query ends the call with an error, as its last
\* round-trip, with no transaction begun and no DROP sent.
Checks == {"probe", "exists"}

AfterFalse(p, check) ==
    IF req[p].op = "UpdateUser"
    THEN IF check = "probe"
         THEN /\ pc[p] = "changeUserPassword_exists"
              /\ loc[p].stmts = <<defaultChangePasswordStatement>>
         ELSE pc[p] = "changeUserPassword_begin"
    ELSE IF check = "probe"
         THEN pc[p] = "defaultDeleteUser_drop"
         ELSE pc[p] = "unlock"

C20_NoRowsIsFalseOtherErrorsAbort ==
    \A p \in Procs : \A i \in 1..Len(log[p]) :
        LET e == log[p][i]
        IN  e.ev \in Checks =>
              /\ e.r = "norows" =>
                    /\ e.ev = "probe" => ~loc[p].isCluster
                    /\ e.ev = "exists" => ~loc[p].exists
                    /\ resp[p].err # e.ev
                    /\ (i = Len(log[p]) /\ ~Failed(p)) => AfterFalse(p, e.ev)
                    /\ (req[p].op = "DeleteUser" /\ e.ev = "exists") =>
                          i = Len(log[p]) /\ resp[p].err = NoErr
                    /\ \A j \in (i + 1)..Len(log[p]) :
                          log[p][j].ev = "execdb" =>
                              log[p][j].q = DropStatement(req[p].username, FALSE)
              /\ e.r = "error" =>
                    /\ i = Len(log[p])
                    /\ resp[p].err = e.ev /\ pc[p] = "unlock"
                    /\ loc[p].tx = "none"
                    /\ Events(p, "begin") = <<>> /\ Events(p, "execdb") = <<>>

\* on a clustered target the probe of a default deletion returned no rows:
\* the DROP was sent without cluster clause and the call succeeded
C20_Witness ==
    \E p \in Procs :
        /\ req[p].op = "DeleteUser" /\ pc[p] = "unlock" /\ ~Failed(p)
        /\ Answers(p, "exists") = <<"true">>
        /\ Answers(p, "probe") = <<"norows">>
        /\ Answers(p, "execdb") = <<"ok">>

\* the existence check of a rotation failed with another error: the call
\* failed before BeginTx
C20_WitnessError ==
    \E p \in Procs :
        /\ req[p].op = "UpdateUser" /\ pc[p] = "unlock" /\ resp[p].err = "exists"
        /\ LastEvent(p) = Ev("exists", NoQuery, "error")

\* C21: a call never uses a cluster flag it did not obtain itself. A rotation
\* without statements that got past its probe, and a default deletion that
\* sent its DROP, made exactly one probe in that call, after finding the
\* account in the case of the deletion; the answer true was given by the
\* topology as it was when the probe ran; the default statement of the
\* rotation and the DROP carry the cluster clause exactly when that answer
\* was true. NewUser and the calls with statements of their own never probe,
\* nor does a default deletion that did not find the account.
ProbeAnswer(p) == Events(p, "probe")[1].r

C21_State(p) ==
    LET probes == Events(p, "probe")
        drops == Events(p, "execdb")
    IN  /\ Len(probes) <= 1
        /\ (req[p].op = "NewUser" \/ req[p].stmts # <<>>) => probes = <<>>
        /\ (req[p].op = "UpdateUser" /\ req[p].stmts = <<>>
               /\ (loc[p].stmts # <<>> \/ loc[p].tx # "none"
                      \/ Events(p, "exists") # <<>>)) =>
              /\ Len(probes) = 1 /\ ProbeAnswer(p) # "error"
              /\ loc[p].stmts = <<DefaultChangePassword(ProbeAnswer(p) = "true")>>
        /\ (req[p].op = "DeleteUser" /\ probes # <<>>) =>
              /\ req[p].stmts = <<>>
              /\ Answers(p, "exists") = <<"true">>
        /\ drops # <<>> =>
              /\ Len(probes) = 1 /\ ProbeAnswer(p) # "error"
              /\ Len(drops) = 1
              /\ drops[1].q = DropStatement(req[p].username, ProbeAnswer(p) = "true")

C21_Step ==
    \A p \in Procs :
        /\ C21_State(p)'
        /\ Len(Events(p, "probe")') > Len(Events(p, "probe")) =>
              /\ ProbeAnswer(p)' = "true" => cluster
              /\ ProbeAnswer(p)' = "false" => ~cluster

C21_ClusterFlagIsPerCall == [][C21_Step]_vars

\* a default deletion probed a clustered target and sent its DROP with the
\* cluster clause; the target is no longer clustered
C21_Witness ==
    \E p \in Procs :
        /\ req[p].op = "DeleteUser" /\ pc[p] = "unlock"
        /\ Answers(p, "probe") = <<"true">>
        /\ Len(Events(p, "execdb")) = 1
        /\ Events(p, "execdb")[1].q = DropStatement(req[p].username, TRUE)
        /\ ~cluster

\* C22: a lifecycle call holds the mutex from its Lock to its return and not
\* outside; it never waits for the mutex while holding it; when it is about
\* to release the mutex (on success and after every kind of failure) its
\* transaction, if it began one, is committed or rolled back; and a call
\* waiting for the mutex eventually acquires it and eventually returns.
Waiting == {"NewUser_lock", "changeUserPassword_lock", "DeleteUser_lock"}
Unlocked == Waiting \cup {"idle", "return", "Initialize_template", "sanitized"}

C22_Safety ==
    \A p \in Procs :
        /\ mutex = p <=> pc[p] \notin Unlocked
        /\ pc[p] = "unlock" =>
              /\ resp[p].err # Pending
              /\ loc[p].tx \in {"none", "failed", "committed", "rolledback"}
              /\ loc[p].tx = "committed" <=> HasEvent(p, "commit", {"ok"})

C22_MutexAlwaysReleased ==
    /\ []C22_Safety
    /\ \A p \in Procs : (pc[p] \in Waiting) ~> (mutex = p)
    /\ \A p \in Procs : (mutex = p) ~> (pc[p] = "idle" /\ mutex # p)

\* one caller is about to release the mutex after a failed commit, which
\* ended its transaction, while the other waits for the mutex
C22_Witness ==
    \E p, q \in Procs :
        /\ pc[p] = "unlock" /\ mutex = p
        /\ Answers(p, "commit") = <<"error">> /\ loc[p].tx = "failed"
        /\ pc[q] \in Waiting

\* C23 as stated, at the step where the call fails: a step of Initialize that
\* makes the call return an error leaves the initialized flag, the connection
\* configuration and the username template in effect as they were.
C23_Step ==
    \A p \in Procs :
        (req'[p].op = "Initialize" /\ ~Failed(p) /\ Failed(p)') =>
            /\ Initialized' = Initialized
            /\ Password' = Password
            /\ usernameProducer' = usernameProducer

C23_Original == [][C23_Step]_vars

\* C24 as stated, for Initialize running beside NewUser: while a NewUser call
\* holds the mutex and has its username still to generate, a step that reads,
\* compiles and installs the username template is made only by the holder of
\* the mutex, that is, never.
C24_Step ==
    \A p, q \in Procs :
        (/\ pc[p] = "Initialize_template" /\ pc'[p] # pc[p]
         /\ pc[q] = "NewUser_generate" /\ mutex = q) => mutex = p

C24_Original == [][C24_Step]_vars

\* C25 as stated: no step of a lifecycle call (a caller holding the mutex)
\* closes the producer's handle: a handle that is open stays open through
\* NewUser, UpdateUser and DeleteUser, up to and including their return.
C25_Step ==
    \A p \in Procs :
        (mutex = p /\ req[p].op \in {"NewUser", "UpdateUser", "DeleteUser"}
           /\ handle = "open") => handle' = "open"

C25_Original == [][C25_Step]_vars

\* C26: at any moment at most one caller has a transaction open, and it holds
\* the mutex; a call about to return has no open transaction: the one it
\* began was committed, by its only Commit, or ended by a failed Commit, or
\* rolled back without any successful Commit; and after the deferred
\* rollback of a committed transaction the account table is still the one
\* the transaction committed.
C26_OneTransactionFinishedBeforeReturn ==
    /\ Cardinality({p \in Procs : loc[p].tx = "open"}) <= 1
    /\ \A p \in Procs :
          /\ loc[p].tx = "open" => mutex = p /\ Answers(p, "begin") = <<"ok">>
          /\ Len(Events(p, "begin")) <= 1 /\ Len(Events(p, "commit")) <= 1
          /\ pc[p] \in {"unlock", "idle", "return"} => loc[p].tx # "open"
          /\ loc[p].tx = "committed" <=> Answers(p, "commit") = <<"ok">>
          /\ loc[p].tx = "failed" <=> Answers(p, "commit") = <<"error">>
          /\ loc[p].tx = "rolledback" =>
                /\ Events(p, "commit") = <<>>
                /\ Answers(p, "rollback") = <<"ok">>
                /\ users = loc[p].snap
          /\ loc[p].tx = "committed" =>
                /\ Events(p, "rollback") = <<>>
                /\ users = loc[p].txView

\* a call is about to return after its deferred rollback: the transaction
\* was committed and the account it created is in the account table
C26_Witness ==
    \E p \in Procs :
        /\ req[p].op = "NewUser" /\ pc[p] = "unlock"
        /\ loc[p].tx = "committed"
        /\ users # loc[p].snap /\ users = loc[p].txView

\* C27: two callers each issue a DeleteUser without statements for the same
\* existing account, and no round-trip of either call fails or comes back
\* without its row. Then at most one DROP is sent by the two calls together,
\* and once both have returned, both returned success, exactly one DROP was
\* sent, and the account is absent.
NoRoundTripFailed(p) ==
    \A i \in 1..Len(log[p]) :
        /\ log[p][i].r # "error"
        /\ log[p][i].ev = "exists" => log[p][i].r # "norows"

DropsSent ==
    Cardinality(UNION { { <<p, i>> : i \in { j \in 1..Len(log[p]) :
                                                log[p][j].ev = "execdb" } }
                        : p \in Procs })

C27_ConcurrentDefaultDeletes ==
    (/\ \A p \in Procs : req[p].op = "DeleteUser" /\ NoRoundTripFailed(p)
     /\ \A p, q \in Procs : req[p].username = req[q].username) =>
        /\ DropsSent <= 1
        /\ (\A p \in Procs : pc[p] = "return") =>
              /\ \A p \in Procs : resp[p].err = NoErr
              /\ DropsSent = 1
              /\ \A p \in Procs : users[req[p].username] = Absent

\* both calls were in progress together and both have returned: the one that
\* got the mutex first found the account and dropped it, the other found it
\* absent and sent nothing
C27_Witness ==
    \E p, q \in Procs :
        /\ pc[p] = "return" /\ pc[q] = "return"
        /\ Answers(p, "exists") = <<"true">> /\ Answers(p, "execdb") = <<"ok">>
        /\ Answers(q, "exists") = <<"false">> /\ Events(q, "execdb") = <<>>
        /\ resp[p].err = NoErr /\ resp[q].err = NoErr
        /\ users["u1"] = Absent

====
